---- MODULE Spec2Model ----
(***************************************************************************)
(* Symbol-context retrieval and caching engine of the LSP-light graph      *)
(* context retriever (vscode/src/graph/lsp/symbol-context-snippets.ts,     *)
(* lsp.ts and the LspLightRetriever that drives them).                     *)
(*                                                                         *)
(* The JavaScript event loop is modelled explicitly: every async function  *)
(* runs to its next await in one step; runq is the microtask queue (FIFO); *)
(* events of the host (a provider answering, a timer firing, a document    *)
(* change, a new retrieve call) are macrotasks and happen only when the    *)
(* microtask queue is empty.                                               *)
(*                                                                         *)
(* Text is a sequence of one-character strings, so that trim, includes,    *)
(* split and join are computed the way the code computes them.             *)
(***************************************************************************)
EXTENDS Integers, Sequences, FiniteSets, TLC

(***************************************************************************)
(* Bounds of the model.                                                    *)
(***************************************************************************)
Callers == 1
MaxSlots == 2
MaxStarts == 2
MaxEvents == 2
MaxEdits == 1
MaxFaults == 1
MaxR == 2
\* The definition ranges a translation is checked for start at lines
\* 0..MaxL0 and characters 0..MaxC0.
MaxL0 == 6
MaxC0 == 7

(***************************************************************************)
(* Program constants.                                                      *)
(***************************************************************************)
LimiterLimit == 3
RetrieveRecursionLimit == 3
NestedN == 5

(***************************************************************************)
(* Text helpers (JavaScript string operations on character sequences).     *)
(***************************************************************************)
\* String.prototype.trim strips the ECMAScript WhiteSpace and LineTerminator
\* characters: TAB, VT, FF, SP, NBSP, ZWNBSP and the other space separators,
\* LF, CR, LS and PS. A character that a string literal of the module cannot
\* hold is written as its code point.
LineTerminators == {"\n", "\r", "U+2028", "U+2029"}
SpaceSeparators ==
    {" ", " ", " ", "U+2000", "U+2001", "U+2002", "U+2003", "U+2004", "U+2005",
     "U+2006", "U+2007", "U+2008", "U+2009", "U+200A", "U+202F", "U+205F", "U+3000"}
WhiteSpace == {"\t", "", "\f", "﻿"} \cup SpaceSeparators \cup LineTerminators

RECURSIVE TrimStart(_)
TrimStart(s) ==
    IF s # <<>> /\ Head(s) \in WhiteSpace THEN TrimStart(Tail(s)) ELSE s

RECURSIVE TrimEnd(_)
TrimEnd(s) ==
    IF s # <<>> /\ s[Len(s)] \in WhiteSpace
    THEN TrimEnd(SubSeq(s, 1, Len(s) - 1))
    ELSE s

Trim(s) == TrimEnd(TrimStart(s))

Includes(s, sub) ==
    \E i \in 0..(Len(s) - Len(sub)) : SubSeq(s, i + 1, i + Len(sub)) = sub

StartsWith(s, p) == Len(s) >= Len(p) /\ SubSeq(s, 1, Len(p)) = p

\* string.split('\n')
RECURSIVE SplitLinesFrom(_, _)
SplitLinesFrom(s, cur) ==
    IF s = <<>> THEN <<cur>>
    ELSE IF Head(s) = "\n" THEN <<cur>> \o SplitLinesFrom(Tail(s), <<>>)
    ELSE SplitLinesFrom(Tail(s), Append(cur, Head(s)))

SplitLines(s) == SplitLinesFrom(s, <<>>)

\* array.join(sep)
RECURSIVE Join(_, _)
Join(parts, sep) ==
    IF parts = <<>> THEN <<>>
    ELSE IF Len(parts) = 1 THEN parts[1]
    ELSE parts[1] \o sep \o Join(Tail(parts), sep)

\* array.filter(s => s !== '')
RECURSIVE DropEmpty(_)
DropEmpty(ss) ==
    IF ss = <<>> THEN <<>>
    ELSE IF Head(ss) # <<>> THEN <<Head(ss)>> \o DropEmpty(Tail(ss))
    ELSE DropEmpty(Tail(ss))

RECURSIVE FlatSeq(_)
FlatSeq(ss) == IF ss = <<>> THEN <<>> ELSE Head(ss) \o FlatSeq(Tail(ss))

Range(s) == {s[i] : i \in 1..Len(s)}

NL == <<"\n">>
\* The backquote character (a string literal of the module cannot hold it).
Backquote == "BQ"
Fence == <<Backquote, Backquote, Backquote>>

\* extractMarkdownCodeBlock: the lines between code-fence delimiters.
RECURSIVE CodeBlockLines(_, _)
CodeBlockLines(lines, isCodeBlock) ==
    IF lines = <<>> THEN <<>>
    ELSE LET line == Head(lines)
             isCodeBlockDelimiter == StartsWith(Trim(line), Fence)
         IN IF isCodeBlockDelimiter /\ ~isCodeBlock
            THEN CodeBlockLines(Tail(lines), TRUE)
            ELSE IF isCodeBlockDelimiter /\ isCodeBlock
            THEN CodeBlockLines(Tail(lines), FALSE)
            ELSE IF isCodeBlock
            THEN <<line>> \o CodeBlockLines(Tail(lines), isCodeBlock)
            ELSE CodeBlockLines(Tail(lines), isCodeBlock)

\* What the extraction would give if it kept the whole block.
extractMarkdownCodeBlock_Whole(string) == string

extractMarkdownCodeBlock(string) ==
    Join(CodeBlockLines(SplitLines(string), FALSE), NL)

\* extractHoverContent: hover is a sequence of hovers, each a sequence of
\* content blocks (the string, or the value of the MarkdownString).
extractHoverContent(hover) ==
    LET blocks == FlatSeq(hover)
        mapped == [i \in 1..Len(blocks) |-> Trim(extractMarkdownCodeBlock(blocks[i]))]
    IN DropEmpty(mapped)

KwInterface == <<"i", "n", "t", "e", "r", "f", "a", "c", "e">>
KwClass == <<"c", "l", "a", "s", "s">>
KwEnum == <<"e", "n", "u", "m">>
KwType == <<"t", "y", "p", "e">>
Sp == <<" ">>

\* What the filter would be if it rejected every text that begins as a bare
\* declaration.
isUnhelpfulSymbolSnippet_Prefix(symbolName, symbolSnippet) ==
    LET trimmed == Trim(symbolSnippet)
    IN \/ symbolSnippet = <<>>
       \/ symbolSnippet = symbolName
       \/ ~Includes(symbolSnippet, symbolName)
       \/ StartsWith(trimmed, KwInterface \o Sp \o symbolName)
       \/ StartsWith(trimmed, KwClass \o Sp \o symbolName)
       \/ StartsWith(trimmed, KwEnum \o Sp \o symbolName)
       \/ StartsWith(trimmed, KwType \o Sp \o symbolName)

isUnhelpfulSymbolSnippet(symbolName, symbolSnippet) ==
    LET trimmed == Trim(symbolSnippet)
    IN \/ symbolSnippet = <<>>
       \/ symbolSnippet = symbolName
       \/ ~Includes(symbolSnippet, symbolName)
       \/ trimmed = KwInterface \o Sp \o symbolName
       \/ trimmed = KwClass \o Sp \o symbolName
       \/ trimmed = KwEnum \o Sp \o symbolName
       \/ trimmed = KwType \o Sp \o symbolName

(***************************************************************************)
(* The workspace the engine runs against: two file documents whose         *)
(* definitions refer to each other, and the language server's answers.     *)
(* Every answer is a function of the documents' versions, so an edit       *)
(* changes the text read afterwards and may move a definition.             *)
(***************************************************************************)
Docs == {"A", "B"}
NotifiedDocs == Docs \cup {"U"}
Scheme(uri) == IF uri = "U" THEN "untitled" ELSE "file"
\* document.languageId: the untitled document is plain text.
LanguageId(uri) == IF uri = "U" THEN "plaintext" ELSE "typescript"
SupportedLanguages ==
    {"python", "go", "javascript", "javascriptreact", "typescript", "typescriptreact"}
isSupportedForLanguageId(languageId) == languageId \in SupportedLanguages

Foo == <<"F", "o", "o">>
Bar == <<"B", "a", "r">>
Zed == <<"Z", "e", "d">>
Qux == <<"Q", "u", "x">>
Wid == <<"W", "i", "d">>
Mix == <<"M", "i", "x">>
Hop == <<"H", "o", "p">>
Pip == <<"P", "i", "p">>
KwAny == <<"a", "n", "y">>
Bar1 == <<"|">>

Digits == <<"0", "1", "2", "3", "4">>
VerText(v) == <<Digits[v + 1]>>

Rng(sl, sc, el, ec) ==
    [startLine |-> sl, startCharacter |-> sc, endLine |-> el, endCharacter |-> ec]
Loc(uri, sl, sc, el, ec) == [uri |-> uri, range |-> Rng(sl, sc, el, ec)]
Link(uri, sl, sc, el, ec) ==
    [targetUri |-> uri, targetRange |-> Rng(sl, sc, el, ec),
     originSelectionRange |-> Rng(0, 0, 0, 1)]

LFooB == Loc("B", 1, 0, 1, 16)
LBarA == Loc("A", 5, 2, 5, 16)
LFooA == Loc("A", 7, 0, 7, 12)
LZedB == Loc("B", 3, 0, 3, 3)
LFooC == Loc("B", 5, 0, 5, 19)
LWide == Loc("B", 7, 0, 7, 32)
LMix == Loc("B", 8, 0, 8, 28)
NoLoc == Loc("", 0, 0, 0, 0)

Req(uri, line, character, nodeType, symbolName) ==
    [uri |-> uri, line |-> line, character |-> character,
     nodeType |-> nodeType, symbolName |-> symbolName]

ReqFoo1 == Req("A", 0, 4, "identifier", Foo)
ReqFoo2 == Req("A", 2, 1, "identifier", Foo)
ReqBar == Req("A", 3, 0, "property_identifier", Bar)
ReqQux == Req("A", 4, 0, "identifier", Qux)
ReqZed == Req("A", 6, 0, "identifier", Zed)
ReqFoo3 == Req("A", 8, 0, "identifier", Foo)
ReqZedP == Req("A", 9, 0, "property_identifier", Zed)
ReqFoo4 == Req("A", 10, 0, "identifier", Foo)
ReqWid == Req("A", 11, 0, "identifier", Wid)
ReqMix == Req("A", 12, 0, "identifier", Mix)
\* A variable named Zed whose type is the class at LFooC.
ReqZedV == Req("A", 13, 0, "identifier", Zed)

\* The identifier in the definition of Bar, at line 5 of A.
ReqFoo5 == Req("A", 5, 11, "identifier", Foo)

TopRequests == {ReqFoo1, ReqFoo2, ReqBar, ReqQux, ReqZed, ReqFoo5}

KwExport == <<"e", "x", "p", "o", "r", "t">>
\* The text: class Foo {}
ClassFooBody == KwClass \o Sp \o Foo \o Sp \o <<"{", "}">>

\* document.getText(range) of the definition at loc, at the documents' versions.
SourceText(loc, v) ==
    IF loc = LFooB
    THEN KwClass \o Sp \o Foo \o <<"{">> \o Bar \o <<"=">> \o VerText(v["B"]) \o <<"}">>
    ELSE IF loc = LBarA
    THEN KwType \o Sp \o Bar \o <<"=">> \o Foo \o <<"|">> \o VerText(v["A"])
    ELSE IF loc = LFooA
    THEN KwClass \o Sp \o Foo \o <<"{">> \o VerText(v["A"]) \o <<"}">>
    ELSE IF loc = LZedB
    THEN Zed
    ELSE IF loc = LFooC
    THEN KwExport \o Sp \o ClassFooBody
    ELSE IF loc = LWide
    THEN KwType \o Sp \o Wid \o <<"=">> \o Hop \o Bar1 \o Zed \o Bar1 \o Bar
         \o Bar1 \o Foo \o Bar1 \o Qux \o Bar1 \o Pip
    ELSE IF loc = LMix
    THEN KwType \o Sp \o Mix \o <<"=">> \o Hop \o Bar1 \o Zed \o Bar1 \o Mix
         \o Bar1 \o KwAny \o Bar1 \o Bar
    ELSE <<>>

Spaces(n) == [i \in 1..n |-> " "]

\* document.lineAt(line).text: a line that holds a definition is the text of
\* the definition behind its indentation, at the documents' versions; any
\* other line that holds a requested identifier is that identifier behind
\* its indentation.
LineAt(uri, line, v) ==
    LET definitions == {loc \in {LFooB, LBarA, LFooA, LZedB, LFooC, LWide, LMix} :
                           loc.uri = uri /\ loc.range.startLine = line}
        requests == {r \in TopRequests : r.uri = uri /\ r.line = line}
    IN IF definitions # {}
       THEN LET loc == CHOOSE x \in definitions : TRUE
            IN Spaces(loc.range.startCharacter) \o SourceText(loc, v)
       ELSE IF requests # {}
       THEN LET r == CHOOSE x \in requests : TRUE
            IN Spaces(r.character) \o r.symbolName
       ELSE <<>>

Fenced(code) == Fence \o <<"t", "s">> \o NL \o code \o NL \o Fence

\* The hover provider's answer at the start of the definition at loc.
HoverAt(loc, v) ==
    IF loc = LFooB
    THEN << <<Fenced(SourceText(LFooB, v)), <<"d", "o", "c">> >> >>
    ELSE IF loc = LBarA
    THEN << <<Fenced(SourceText(LBarA, v))>> >>
    ELSE IF loc = LFooA
    THEN << <<Fenced(KwClass \o Sp \o Foo)>> >>
    ELSE IF loc = LZedB
    THEN << <<Fenced(KwClass \o Sp \o Zed)>> >>
    ELSE IF loc = LFooC
    THEN << <<Fenced(ClassFooBody)>> >>
    ELSE IF loc \in {LWide, LMix}
    THEN << <<Fenced(SourceText(loc, v))>> >>
    ELSE <<>>

\* The raw answers of vscode.execute{Definition,TypeDefinition,Implementation}Provider.
RawLocations(getter, uri, line, character, v) ==
    LET at == <<uri, line, character>>
    IN IF at = <<"A", 0, 4>> /\ getter = "typeDefinition"
       THEN IF v["B"] = 0 THEN <<Link("B", 1, 0, 1, 16)>> ELSE <<LFooA>>
       ELSE IF at = <<"A", 2, 1>> /\ getter = "typeDefinition"
       THEN <<LFooB, LFooA>>
       ELSE IF at = <<"A", 3, 0>> /\ getter = "typeDefinition"
       THEN <<Link("A", 5, 2, 5, 16)>>
       ELSE IF at = <<"A", 6, 0>> /\ getter \in {"typeDefinition", "definition"}
       THEN <<LZedB>>
       ELSE IF at = <<"A", 8, 0>> /\ getter = "typeDefinition"
       THEN <<LFooC>>
       ELSE IF at = <<"A", 9, 0>> /\ getter = "definition"
       THEN <<LZedB>>
       ELSE IF at = <<"A", 11, 0>> /\ getter = "typeDefinition"
       THEN <<LWide>>
       ELSE IF at = <<"A", 12, 0>> /\ getter = "typeDefinition"
       THEN <<LMix>>
       ELSE IF at = <<"A", 13, 0>> /\ getter = "typeDefinition"
       THEN <<LFooC>>
       ELSE IF at = <<"A", 10, 0>> /\ getter = "implementation"
       THEN <<Link("B", 5, 0, 5, 19), LFooA>>
       ELSE IF at = <<"B", 1, 10>> /\ getter = "definition"
       THEN <<LBarA>>
       ELSE IF at = <<"A", 5, 11>> /\ getter = "definition"
       THEN <<Link("B", 1, 0, 1, 16)>>
       ELSE <<>>

\* The identifiers the syntax query finds in a snippet, last one first, with
\* positions relative to the snippet.
Ident(symbolName, nodeType, line, character) ==
    [symbolName |-> symbolName, nodeType |-> nodeType,
     line |-> line, character |-> character]

\* The index of the first occurrence of name in text.
FirstIndexOf(text, name) ==
    CHOOSE i \in 1..Len(text) :
        /\ i + Len(name) - 1 <= Len(text)
        /\ SubSeq(text, i, i + Len(name) - 1) = name
        /\ \A k \in 1..(i - 1) :
               ~(/\ k + Len(name) - 1 <= Len(text)
                 /\ SubSeq(text, k, k + Len(name) - 1) = name)

\* node.startPosition of the node at index i of the parsed string: the row is
\* the number of line breaks before it, the column the offset in its line.
RowOf(text, i) == Cardinality({k \in 1..(i - 1) : text[k] = "\n"})
ColumnOf(text, i) ==
    LET breaks == {k \in 1..(i - 1) : text[k] = "\n"}
        lineStart == IF breaks = {} THEN 0
                     ELSE CHOOSE k \in breaks : \A o \in breaks : o <= k
    IN i - 1 - lineStart

IdentAt(source, symbolName, nodeType) ==
    LET i == FirstIndexOf(source, symbolName)
    IN Ident(symbolName, nodeType, RowOf(source, i), ColumnOf(source, i))

IdentifiersIn(source) ==
    IF Includes(source, Wid \o <<"=">>)
    THEN <<Ident(Pip, "type_identifier", 0, 29), Ident(Qux, "type_identifier", 0, 25),
           Ident(Foo, "type_identifier", 0, 21), Ident(Bar, "type_identifier", 0, 17),
           Ident(Zed, "type_identifier", 0, 13), Ident(Hop, "type_identifier", 0, 9),
           Ident(Wid, "type_identifier", 0, 5)>>
    ELSE IF Includes(source, Mix \o <<"=">>)
    THEN <<Ident(Bar, "type_identifier", 0, 25), Ident(KwAny, "type_identifier", 0, 21),
           Ident(Mix, "type_identifier", 0, 17), Ident(Zed, "type_identifier", 0, 13),
           Ident(Hop, "type_identifier", 0, 9), Ident(Mix, "type_identifier", 0, 5)>>
    ELSE IF Includes(source, Foo \o <<"{">> \o Bar)
    THEN <<Ident(Bar, "type_identifier", 0, 10), Ident(Foo, "type_identifier", 0, 6)>>
    ELSE IF Includes(source, Bar \o <<"=">> \o Foo)
    THEN <<Ident(Foo, "type_identifier", 0, 9), Ident(Bar, "type_identifier", 0, 5)>>
    ELSE IF Includes(source, Foo \o <<"{">>)
    THEN <<Ident(Foo, "type_identifier", 0, 6)>>
    ELSE IF Includes(source, Pip \o <<"{">>)
    THEN <<IdentAt(source, Foo, "type_identifier"),
           IdentAt(source, Pip, "type_identifier")>>
    ELSE <<>>

CommonKeywords == {<<"s", "t", "r", "i", "n", "g">>, <<"a", "n", "y">>}

(***************************************************************************)
(* lsp.ts                                                                  *)
(***************************************************************************)
isLocationLink(value) == "targetUri" \in DOMAIN value

\* What the conversion would be if it passed every value through.
locationLinkToLocation_AsIs(value) == value

locationLinkToLocation(value) ==
    IF isLocationLink(value)
    THEN [uri |-> value.targetUri, range |-> value.targetRange]
    ELSE value

\* getDefinitionLocations, getTypeDefinitionLocations, getImplementationLocations
getLocations(getter, uri, line, character, v) ==
    LET definitions == RawLocations(getter, uri, line, character, v)
    IN [i \in 1..Len(definitions) |-> locationLinkToLocation(definitions[i])]

getHover(loc, v) == HoverAt(loc, v)

getTextFromLocation(loc, v) == SourceText(loc, v)


(***************************************************************************)
(* State.                                                                  *)
(***************************************************************************)
VARIABLES
    ver,            \* version of each document's content
    defCache,       \* definitionCache.cache: uri -> (definition key -> entry)
    locCache,       \* definitionLocationCache.cache: uri -> (location key -> locations)
    docToKeys,      \* definitionLocationCache.documentToLocationCacheKeyMap
    recency,        \* the order of last use in the two caches' LRUCache objects
    relSets,        \* the relatedDefinitionKeys Set objects, by identity
    tasks,          \* the running getSymbolSnippetForNodeType calls, by call path
    runq,           \* microtask queue: the calls ready to continue, first one first
    active,         \* limiter: the calls whose operation is in flight
    queue,          \* limiter: the calls waiting for admission
    retr,           \* the getSymbolContextSnippets calls, by slot
    lastRequestKey, \* LspLightRetriever.lastRequestKey
    lastSlot,       \* the call whose AbortController abortLastRequest aborts
    pendingChange,  \* debounce(onDidChangeTextDocument): the last event, timer running
    pendingSelection, \* debounce(onDidChangeTextEditorSelection): the same
    subscribed,     \* the retriever's two event subscriptions are not disposed
    hist,           \* history (not program state): what the claims speak about
    probe           \* a call of a pure function on its own: arguments, result

vars == <<ver, defCache, locCache, docToKeys, recency, relSets, tasks, runq, active,
          queue, retr, lastRequestKey, lastSlot, pendingChange, pendingSelection,
          subscribed, hist, probe>>

\* Map: set and delete.
MapSet(m, k, val) == [x \in (DOMAIN m) \cup {k} |-> IF x = k THEN val ELSE m[x]]
MapDelete(m, k) == [x \in (DOMAIN m) \ {k} |-> m[x]]
EmptyMap == [x \in {} |-> 0]

\* Set: add and delete on a Set kept in insertion order.
SetAdd(members, k) == IF k \in Range(members) THEN members ELSE Append(members, k)
Without(members, k) == LET Keep(x) == x # k IN SelectSeq(members, Keep)

\* new Set(items)
RECURSIVE NewSet(_)
NewSet(items) ==
    IF items = <<>> THEN <<>>
    ELSE SetAdd(NewSet(SubSeq(items, 1, Len(items) - 1)), items[Len(items)])

(***************************************************************************)
(* LRUCache (lru-cache): the entries, and their keys in the order of their *)
(* last use, the least recently used one first.                            *)
(***************************************************************************)
MaxCachedDocuments == 100
MaxCachedDefinitionLocations == 100
MaxCachedDefinitions == 100

\* LRUCache.get(k): a key that is held becomes the most recently used one.
LruGet(order, k) == IF k \in Range(order) THEN Append(Without(order, k), k) ELSE order

\* LRUCache.set(k, val): a key that is held is updated and becomes the most
\* recently used one; a new key evicts the least recently used one when the
\* cache holds max entries.
LruSet(m, order, k, val, max) ==
    IF k \in DOMAIN m THEN <<MapSet(m, k, val), LruGet(order, k)>>
    ELSE IF Len(order) >= max
    THEN <<MapSet(MapDelete(m, Head(order)), k, val), Append(Tail(order), k)>>
    ELSE <<MapSet(m, k, val), Append(order, k)>>

\* The recency of a cache of document caches: the order of the documents and,
\* for each document, the order of its keys.
NoOrder == [docs |-> <<>>, keys |-> EmptyMap]

\* this.cache.get(uri)?.get(key): the recency afterwards.
CacheGet(c, o, uri, key) ==
    IF uri \in DOMAIN c
    THEN [o EXCEPT !.docs = LruGet(@, uri), !.keys[uri] = LruGet(@, key)]
    ELSE o

\* The body of set (lines 364-374, 417-424): the document cache is looked up,
\* or created and set, and the entry is set in it. The pair <<cache, recency>>
\* afterwards.
CacheSet(c, o, uri, key, val, max) ==
    LET outer == IF uri \in DOMAIN c THEN <<c, LruGet(o.docs, uri)>>
                 ELSE LruSet(c, o.docs, uri, EmptyMap, MaxCachedDocuments)
        keys == [u \in DOMAIN outer[1] |-> IF u \in DOMAIN c THEN o.keys[u] ELSE <<>>]
        inner == LruSet(outer[1][uri], keys[uri], key, val, max)
    IN <<[outer[1] EXCEPT ![uri] = inner[1]],
         [docs |-> outer[2], keys |-> [keys EXCEPT ![uri] = inner[2]]]>>

\* The body of delete (lines 377-382, 435-440), and this.cache.get(uri)?.delete(key).
CacheDelete(c, o, uri, key) ==
    IF uri \in DOMAIN c
    THEN <<[c EXCEPT ![uri] = MapDelete(@, key)],
           [docs |-> LruGet(o.docs, uri), keys |-> [o.keys EXCEPT ![uri] = Without(@, key)]]>>
    ELSE <<c, o>>

(***************************************************************************)
(* DefinitionCache                                                         *)
(***************************************************************************)
\* An entry {content, relatedDefinitionKeys?}: rel = 0 when it has no Set.
DefEntry(content, rel) == [content |-> content, rel |-> rel]

toDefinitionCacheKey(loc) == <<loc.range.startLine, loc.range.startCharacter>>

\* `${definitionUriString}::${definitionCacheKey}`, and key.split('::')
EntryPath(loc) == <<loc.uri, toDefinitionCacheKey(loc)>>

DefCacheHas(dc, loc) ==
    /\ loc.uri \in DOMAIN dc
    /\ toDefinitionCacheKey(loc) \in DOMAIN dc[loc.uri]

\* DefinitionCache.get: the entry it returns, and the recency afterwards.
DefCacheGet(dc, loc) == dc[loc.uri][toDefinitionCacheKey(loc)]

DefCacheUsed(dc, o, loc) == CacheGet(dc, o, loc.uri, toDefinitionCacheKey(loc))

DefCacheSet(dc, o, loc, entry) ==
    CacheSet(dc, o, loc.uri, toDefinitionCacheKey(loc), entry, MaxCachedDefinitions)

DefCacheDelete(dc, o, loc) == CacheDelete(dc, o, loc.uri, toDefinitionCacheKey(loc))

DefCacheDeleteDocument(dc, o, uri) ==
    <<MapDelete(dc, uri), [docs |-> Without(o.docs, uri), keys |-> MapDelete(o.keys, uri)]>>

(***************************************************************************)
(* DefinitionLocationCache                                                 *)
(***************************************************************************)
toLocationCacheKey(req) == <<req.line, req.character, req.nodeType, req.symbolName>>

LocCacheHas(lc, req) ==
    /\ req.uri \in DOMAIN lc
    /\ toLocationCacheKey(req) \in DOMAIN lc[req.uri]

\* DefinitionLocationCache.get: the list it returns, and the recency afterwards.
LocCacheGet(lc, req) == lc[req.uri][toLocationCacheKey(req)]

LocCacheUsed(lc, o, req) == CacheGet(lc, o, req.uri, toLocationCacheKey(req))

addToDocumentToCacheKeyMap(idx, uri, cacheKey) ==
    MapSet(idx, uri, SetAdd(IF uri \in DOMAIN idx THEN idx[uri] ELSE <<>>, cacheKey))

removeFromDocumentToCacheKeyMap(idx, uri, cacheKey) ==
    IF uri \in DOMAIN idx
    THEN IF Without(idx[uri], cacheKey) = <<>>
         THEN MapDelete(idx, uri)
         ELSE [idx EXCEPT ![uri] = Without(@, cacheKey)]
    ELSE idx

RECURSIVE AddAllToIndex(_, _, _)
AddAllToIndex(idx, locations, cacheKey) ==
    IF locations = <<>> THEN idx
    ELSE AddAllToIndex(addToDocumentToCacheKeyMap(idx, Head(locations).uri, cacheKey),
                       Tail(locations), cacheKey)

\* DefinitionLocationCache.set: <<cache, recency, reverse index>> afterwards.
LocCacheSet(lc, o, idx, req, locations) ==
    LET uri == req.uri
        locationCacheKey == toLocationCacheKey(req)
        set == CacheSet(lc, o, uri, locationCacheKey, locations,
                        MaxCachedDefinitionLocations)
    IN <<set[1], set[2], AddAllToIndex(idx, locations, <<uri, locationCacheKey>>)>>

\* What delete would be if it left an empty list under the key.
LocCacheDelete_KeepEmpty(lc, o, req) ==
    CacheSet(lc, o, req.uri, toLocationCacheKey(req), <<>>, MaxCachedDefinitionLocations)

LocCacheDelete(lc, o, req) == CacheDelete(lc, o, req.uri, toLocationCacheKey(req))

\* invalidateEntriesForDocument(uri): for every cache key listed under uri,
\* in the order of the Set, `const [uri, key] = cacheKey.split('::')` rebinds
\* uri to the requesting document, the entry is deleted from that document's
\* bucket and the key is removed from the index of THAT document.
RECURSIVE InvalidateKeys(_, _, _, _)
InvalidateKeys(lc, o, idx, cacheKeys) ==
    IF cacheKeys = <<>> THEN <<lc, o, idx>>
    ELSE LET cacheKey == Head(cacheKeys)
             uri == cacheKey[1]
             key == cacheKey[2]
             deleted == CacheDelete(lc, o, uri, key)
         IN InvalidateKeys(deleted[1], deleted[2],
                           removeFromDocumentToCacheKeyMap(idx, uri, cacheKey),
                           Tail(cacheKeys))

\* What the cache would do if it dropped only the bucket of the document.
invalidateEntriesForDocument_OwnBucket(lc, o, idx, uri) ==
    <<MapDelete(lc, uri), [docs |-> Without(o.docs, uri), keys |-> MapDelete(o.keys, uri)],
      MapDelete(idx, uri)>>

invalidateEntriesForDocument(lc, o, idx, uri) ==
    IF uri \in DOMAIN idx
    THEN InvalidateKeys(lc, o, idx, idx[uri])
    ELSE <<lc, o, idx>>


(***************************************************************************)
(* The engine's state as one record, so that the code between two awaits   *)
(* composes as functions from state to state.                              *)
(***************************************************************************)
Pack ==
    [ver |-> ver, defCache |-> defCache, locCache |-> locCache,
     docToKeys |-> docToKeys, recency |-> recency, relSets |-> relSets, tasks |-> tasks,
     runq |-> runq, active |-> active, queue |-> queue, retr |-> retr,
     hist |-> hist]

NoInv == [uri |-> "", defs |-> {}, locs |-> {}]

Commit(S) ==
    /\ ver' = S.ver
    /\ defCache' = S.defCache
    /\ locCache' = S.locCache
    /\ docToKeys' = S.docToKeys
    /\ recency' = S.recency
    /\ relSets' = S.relSets
    /\ tasks' = S.tasks
    /\ runq' = S.runq
    /\ active' = S.active
    /\ queue' = S.queue
    /\ retr' = S.retr
    /\ hist' = S.hist
    /\ probe' = probe

\* Every step but an invalidation forgets what the last invalidation removed.
Forget(S) == [S EXCEPT !.hist.lastInv = NoInv]

(***************************************************************************)
(* Snippets and calls.                                                     *)
(***************************************************************************)
\* PartialSymbolSnippetInflightRequest; present = FALSE stands for undefined,
\* hasContent = FALSE for a missing content, rel = 0 for no Set.
NoSnip ==
    [present |-> FALSE, loc |-> NoLoc, symbol |-> <<>>, hasContent |-> FALSE,
     content |-> <<>>, rel |-> 0]

BareSnip(symbolName, loc) ==
    [present |-> TRUE, loc |-> loc, symbol |-> symbolName, hasContent |-> FALSE,
     content |-> <<>>, rel |-> 0]

NoResp == [locs |-> <<>>, hover |-> <<>>]

NewTask(req, recursionLimit, parents, h) ==
    [req |-> req, R |-> recursionLimit, parents |-> parents, gi |-> 1,
     pc |-> "start", locs |-> <<>>, snip |-> NoSnip, resp |-> NoResp,
     again |-> req \in h.resolved,
     mustFresh |-> req \in h.needFresh,
     calledLoc |-> FALSE, calledHover |-> FALSE, readText |-> FALSE,
     preInv |-> FALSE, hitStale |-> FALSE, afterAbort |-> FALSE,
     dupExtract |-> FALSE, emptied |-> FALSE, getter |-> ""]

PropertyKinds == {"property_identifier", "type_identifier"}

\* What the loop would try if the order did not depend on the node type.
Getters_OneOrder(nodeType) == <<"typeDefinition", "implementation", "definition">>

Getters(nodeType) ==
    IF nodeType \in PropertyKinds
    THEN <<"definition", "typeDefinition", "implementation">>
    ELSE <<"typeDefinition", "implementation", "definition">>

Parent(t) == SubSeq(t, 1, Len(t) - 1)
Children(ts, t) == {c \in DOMAIN ts : Len(c) = Len(t) + 1 /\ Parent(c) = t}
Settled(pc) == pc \in {"done", "rejected"}

(***************************************************************************)
(* The limiter (createLimiter): at most LimiterLimit operations in flight, *)
(* the others wait in arrival order.                                       *)
(***************************************************************************)
\* The operation handed to the limiter is invoked: the language server
\* computes its answer from the documents as they are now.
Invoke(S, t) ==
    LET task == S.tasks[t]
        req == task.req
    IN IF task.pc = "awaitLoc"
       THEN [S EXCEPT !.tasks[t].resp.locs =
                          getLocations(Getters(req.nodeType)[task.gi], req.uri,
                                       req.line, req.character, S.ver),
                      !.tasks[t].calledLoc = TRUE,
                      !.tasks[t].getter = Getters(req.nodeType)[task.gi],
                      !.tasks[t].afterAbort = @ \/ S.retr[t[1]].aborted]
       ELSE [S EXCEPT !.tasks[t].resp.hover = getHover(task.snip.loc, S.ver),
                      !.tasks[t].calledHover = TRUE,
                      !.tasks[t].afterAbort = @ \/ S.retr[t[1]].aborted]

LimiterStart(S, t) == [Invoke(S, t) EXCEPT !.active = @ \cup {t}]

\* An operation handed over with a signal that is aborted already is not
\* admitted. Only the hover call hands its signal over (line 127).
LimiterEnqueue(S, t) ==
    IF S.tasks[t].pc = "awaitHover" /\ S.retr[t[1]].aborted
    THEN [S EXCEPT !.tasks[t].pc = "hoverAborted", !.runq = Append(@, t)]
    ELSE IF Cardinality(S.active) < LimiterLimit
    THEN LimiterStart(S, t)
    ELSE [S EXCEPT !.queue = Append(@, t)]

LimiterRelease(S, t) ==
    LET S1 == [S EXCEPT !.active = @ \ {t}]
    IN IF S1.queue # <<>>
       THEN LimiterStart([S1 EXCEPT !.queue = Tail(@)], Head(S1.queue))
       ELSE S1


\* What the engine would do if it called the provider itself.
CallThroughLimiter_Direct(S, t) == LimiterStart(S, t)

\* lines 82 and 125: await limiter(() => ..., abortSignal).
CallThroughLimiter(S, t) == LimiterEnqueue(S, t)

(***************************************************************************)
(* symbol-context-snippets.ts: the engine.                                 *)
(***************************************************************************)
\* updateParentDefinitionKeys: add key to the Set of every parent entry that
\* is in the cache now and has a Set.
RECURSIVE AddToParents(_, _, _, _)
AddToParents(rs, dc, parents, key) ==
    IF parents = <<>> THEN rs
    ELSE LET p == Head(parents)
             uriKey == p[1]
             definitionKey == p[2]
             has == /\ uriKey \in DOMAIN dc
                    /\ definitionKey \in DOMAIN dc[uriKey]
                    /\ dc[uriKey][definitionKey].rel # 0
             rs1 == IF has
                    THEN [rs EXCEPT ![dc[uriKey][definitionKey].rel] = SetAdd(@, key)]
                    ELSE rs
         IN AddToParents(rs1, dc, Tail(parents), key)

\* definitionCache.cache.get(uriKey)?.get(definitionKey) for every key of a
\* list, in its order: the recency afterwards.
RECURSIVE UsedAll(_, _, _)
UsedAll(dc, o, keys) ==
    IF keys = <<>> THEN o
    ELSE UsedAll(dc, CacheGet(dc, o, Head(keys)[1], Head(keys)[2]), Tail(keys))

updateParentDefinitionKeys(S, parents, snip) ==
    [S EXCEPT !.relSets = AddToParents(S.relSets, S.defCache, parents, EntryPath(snip.loc)),
              !.recency.def = UsedAll(S.defCache, @, parents)]

\* getSymbolContextSnippets, lines 272-293: the content of the related
\* definitions, in the Set's order, then the snippet's own content.
\* What the assembly would collect if it did not skip the snippet's own key.
RECURSIVE RelatedContents_WithSelf(_, _, _)
RelatedContents_WithSelf(dc, keys, ownKey) ==
    IF keys = <<>> THEN <<>>
    ELSE LET key == Head(keys)
             rest == RelatedContents_WithSelf(dc, Tail(keys), ownKey)
         IN IF key[1] \in DOMAIN dc /\ key[2] \in DOMAIN dc[key[1]]
            THEN <<dc[key[1]][key[2]].content>> \o rest
            ELSE rest

RECURSIVE RelatedContents(_, _, _)
RelatedContents(dc, keys, ownKey) ==
    IF keys = <<>> THEN <<>>
    ELSE LET key == Head(keys)
             uriKey == key[1]
             definitionKey == key[2]
             rest == RelatedContents(dc, Tail(keys), ownKey)
         IN IF key = ownKey THEN rest
            ELSE IF uriKey \in DOMAIN dc /\ definitionKey \in DOMAIN dc[uriKey]
            THEN <<dc[uriKey][definitionKey].content>> \o rest
            ELSE rest

\* What the assembly would return if it merged nothing.
WithRelatedSnippets_Unmerged(S, snip) == snip

WithRelatedSnippets(S, snip) ==
    IF snip.rel = 0 THEN snip
    ELSE [snip EXCEPT !.content =
             Join(RelatedContents(S.defCache, S.relSets[snip.rel], EntryPath(snip.loc))
                  \o <<snip.content>>, NL)]

\* What the result would be if the later requests came first.
RECURSIVE ResultList_Reversed(_, _, _)
ResultList_Reversed(S, slot, i) ==
    IF <<slot, i>> \notin DOMAIN S.tasks THEN <<>>
    ELSE LET snip == S.tasks[<<slot, i>>].snip
         IN ResultList_Reversed(S, slot, i + 1)
            \o (IF snip.present THEN <<WithRelatedSnippets(S, snip)>> ELSE <<>>)

RECURSIVE ResultList(_, _, _)
ResultList(S, slot, i) ==
    IF <<slot, i>> \notin DOMAIN S.tasks THEN <<>>
    ELSE LET snip == S.tasks[<<slot, i>>].snip
         IN (IF snip.present THEN <<WithRelatedSnippets(S, snip)>> ELSE <<>>)
            \o ResultList(S, slot, i + 1)

\* The recency of the definition cache after the assembly: line 285 looks up
\* every related key but the snippet's own, snippet by snippet.
RECURSIVE UsedByResult(_, _, _, _)
UsedByResult(S, o, slot, i) ==
    IF <<slot, i>> \notin DOMAIN S.tasks THEN o
    ELSE LET snip == S.tasks[<<slot, i>>].snip
             related == IF snip.present /\ snip.rel # 0
                        THEN Without(S.relSets[snip.rel], EntryPath(snip.loc))
                        ELSE <<>>
         IN UsedByResult(S, UsedAll(S.defCache, o, related), slot, i + 1)

\* The Promise.all of the top-level requests is fulfilled: the result is
\* assembled and the call resolves.
\* What retrieve would return if it did not look at the hint.
RetrieveReturn_Keep(maxChars, contextSnippets) == contextSnippets

\* LspLightRetriever.retrieve after its await: a call with hints.maxChars = 0
\* returns the empty list. maxChars is -1 for a call of the engine that did
\* not come through retrieve.
RetrieveReturn(maxChars, contextSnippets) ==
    IF maxChars = 0 THEN <<>> ELSE contextSnippets

CompleteRetrieval(S, slot) ==
    IF /\ S.retr[slot].status = "running"
       /\ \A c \in Children(S.tasks, <<slot>>) : S.tasks[c].pc = "done"
    THEN [S EXCEPT !.retr[slot].status = "resolved",
                   !.recency.def = UsedByResult(S, @, slot, 1),
                   !.retr[slot].result = ResultList(S, slot, 1),
                   !.retr[slot].returned =
                       RetrieveReturn(S.retr[slot].maxChars, ResultList(S, slot, 1))]
    ELSE S

\* An await of the call throws: the call rejects, and so does every caller
\* that awaits it (Promise.all rejects with the first rejection).
RECURSIVE RejectUp(_, _)
RejectUp(S, t) ==
    LET S1 == [S EXCEPT !.tasks[t].pc = "rejected"]
    IN IF Len(t) = 2
       THEN IF S1.retr[t[1]].status = "running"
            THEN [S1 EXCEPT !.retr[t[1]].status = "rejected"]
            ELSE S1
       ELSE IF S1.tasks[Parent(t)].pc = "awaitChildren"
            THEN RejectUp(S1, Parent(t))
            ELSE S1

\* getSymbolSnippetForNodeType returns: undefined (snip.present = FALSE) or
\* the one snippet.
Finish(S, t, snip) ==
    LET req == S.tasks[t].req
        S1 == [S EXCEPT !.tasks[t].pc = "done",
                        !.tasks[t].snip = snip,
                        !.hist.resolved =
                            IF snip.present THEN @ \cup {req} ELSE @,
                        !.hist.resolvedAt =
                            IF snip.present THEN @ \cup {<<req, snip.loc.uri>>} ELSE @]
    IN IF Len(t) = 2
       THEN CompleteRetrieval(S1, t[1])
       ELSE IF /\ S1.tasks[Parent(t)].pc = "awaitChildren"
               /\ \A c \in Children(S1.tasks, Parent(t)) : S1.tasks[c].pc = "done"
            THEN [S1 EXCEPT !.tasks[Parent(t)].pc = "childrenDone",
                            !.runq = Append(@, Parent(t))]
            ELSE S1

\* getSnippetForLocationGetter returns: the caller continues in a microtask.
ReturnFromGetter(S, t, snip) ==
    [S EXCEPT !.tasks[t].pc = "afterGetter",
              !.tasks[t].snip = snip,
              !.tasks[t].dupExtract = FALSE,
              !.runq = Append(@, t)]

\* Another call is extracting the definition at the location (its hover call
\* or its source read has not answered) and no invalidation came in between.
Extracting(S, t, definitionLocation) ==
    \E o \in DOMAIN S.tasks :
        /\ o # t
        /\ S.tasks[o].pc \in {"awaitHover", "hoverAborted", "awaitText1", "awaitText2"}
        /\ S.tasks[o].snip.loc = definitionLocation
        /\ ~S.tasks[o].preInv

\* getSnippetForLocationGetter, lines 85-128: from the location list to the
\* next await.
GotLocations(S, t, definitionLocations) ==
    LET task == S.tasks[t]
        req == task.req
        deleted == LocCacheDelete(S.locCache, S.recency.loc, req)
    IN IF definitionLocations = <<>>
       THEN ReturnFromGetter([S EXCEPT !.locCache = deleted[1],
                                       !.recency.loc = deleted[2],
                                       !.tasks[t].emptied = TRUE], t, NoSnip)
       ELSE LET definitionLocation == definitionLocations[1]
                symbolContextSnippet == BareSnip(req.symbolName, definitionLocation)
                S1 == [S EXCEPT !.tasks[t].locs = definitionLocations,
                                !.tasks[t].snip = symbolContextSnippet,
                                !.recency.def =
                                    DefCacheUsed(S.defCache, @, definitionLocation)]
                S2 == [S1 EXCEPT !.tasks[t].hitStale =
                                     EntryPath(definitionLocation) \in S.hist.staleDefs]
            IN IF DefCacheHas(S.defCache, definitionLocation)
               THEN LET cachedDefinition == DefCacheGet(S.defCache, definitionLocation)
                    IN ReturnFromGetter(
                           updateParentDefinitionKeys(S2, task.parents, symbolContextSnippet),
                           t,
                           [symbolContextSnippet EXCEPT
                               !.hasContent = TRUE,
                               !.content = cachedDefinition.content,
                               !.rel = cachedDefinition.rel])
               ELSE LET S3 == [S1 EXCEPT !.tasks[t].dupExtract =
                                             Extracting(S, t, definitionLocation)]
                    IN IF req.nodeType \in PropertyKinds
                       THEN [S3 EXCEPT !.tasks[t].pc = "awaitText1",
                                       !.tasks[t].readText = TRUE]
                       ELSE CallThroughLimiter(
                                [S3 EXCEPT !.tasks[t].pc = "awaitHover"], t)

\* getSnippetForLocationGetter, lines 79-83.
StartGetter(S, t) ==
    LET req == S.tasks[t].req
        S1 == [S EXCEPT !.recency.loc = LocCacheUsed(S.locCache, @, req)]
    IN IF LocCacheHas(S.locCache, req)
       THEN GotLocations(S1, t, LocCacheGet(S.locCache, req))
       ELSE CallThroughLimiter([S1 EXCEPT !.tasks[t].pc = "awaitLoc"], t)

\* getSnippetForLocationGetter, lines 143-148: the extraction succeeded.
ReturnContent(S, t, definitionString) ==
    LET task == S.tasks[t]
        set == LocCacheSet(S.locCache, S.recency.loc, S.docToKeys, task.req, task.locs)
    IN ReturnFromGetter([S EXCEPT !.locCache = set[1], !.recency.loc = set[2],
                                  !.docToKeys = set[3]], t,
                        [task.snip EXCEPT !.hasContent = TRUE,
                                          !.content = definitionString])

\* lines 129-137, once the hover call has answered.
\* What the hover branch would do if it always read the source.
GotHover_AlwaysText(S, t, hoverContent) ==
    [S EXCEPT !.tasks[t].pc = "awaitText2", !.tasks[t].readText = TRUE]

GotHover(S, t, hoverContent) ==
    LET task == S.tasks[t]
        definitionString == Join(extractHoverContent(hoverContent), NL)
    IN IF isUnhelpfulSymbolSnippet(task.req.symbolName, definitionString)
       THEN [S EXCEPT !.tasks[t].pc = "awaitText2", !.tasks[t].readText = TRUE]
       ELSE ReturnContent(S, t, definitionString)

\* lines 121-122 and 132-136, once getTextFromLocation has answered.
GotText(S, t, definitionString) ==
    LET task == S.tasks[t]
    IN IF /\ task.pc = "awaitText2"
          /\ isUnhelpfulSymbolSnippet(task.req.symbolName, definitionString)
       THEN ReturnFromGetter(S, t, task.snip)
       ELSE ReturnContent(S, t, definitionString)


\* lines 185-200: the requests for the identifiers found in the snippet.
\* What the filter would be if it kept every identifier.
KeepNested_All(idents, symbolName) == idents

RECURSIVE KeepNested(_, _)
KeepNested(idents, symbolName) ==
    IF idents = <<>> THEN <<>>
    ELSE IF /\ symbolName # Head(idents).symbolName
            /\ Head(idents).symbolName \notin CommonKeywords
         THEN <<Head(idents)>> \o KeepNested(Tail(idents), symbolName)
         ELSE KeepNested(Tail(idents), symbolName)

NestedRequests(symbolName, definitionLocation, definitionString) ==
    LET found == IdentifiersIn(definitionString)
        lastN == SubSeq(found, 1, IF Len(found) < NestedN THEN Len(found) ELSE NestedN)
        kept == KeepNested(lastN, symbolName)
    IN [i \in 1..Len(kept) |->
           Req(definitionLocation.uri,
               kept[i].line + definitionLocation.range.startLine,
               kept[i].character + definitionLocation.range.startCharacter,
               kept[i].nodeType,
               kept[i].symbolName)]

\* symbolsSnippetRequests.map(getSymbolSnippetForNodeType): every call is
\* created and runs to its first await before anything else continues.
Spawn(S, p, requests, recursionLimit, parents) ==
    LET paths == [i \in 1..Len(requests) |-> Append(p, i)]
        new == [c \in Range(paths) |->
                   NewTask(requests[c[Len(c)]], recursionLimit, parents, S.hist)]
    IN [S EXCEPT !.tasks = [x \in (DOMAIN S.tasks) \cup Range(paths) |->
                               IF x \in Range(paths) THEN new[x] ELSE S.tasks[x]],
                 !.runq = paths \o @,
                 !.hist.needFresh = @ \ Range(requests)]

\* What the recursion would get if the limit were handed on unchanged.
NextRecursionLimit_Same(recursionLimit) == recursionLimit

\* line 215: recursionLimit: recursionLimit - 1.
NextRecursionLimit(recursionLimit) == recursionLimit - 1

\* getSymbolSnippetForNodeType, lines 180-221.
Resolved(S, t) ==
    LET task == S.tasks[t]
        snip == task.snip
        definitionLocation == snip.loc
        definitionString == snip.content
        set1 == DefCacheSet(S.defCache, S.recency.def, definitionLocation,
                            DefEntry(definitionString, 0))
        S1 == [S EXCEPT !.defCache = set1[1],
                        !.recency.def = set1[2],
                        !.hist.staleDefs =
                            IF task.preInv \/ task.hitStale
                            THEN @ \cup {EntryPath(definitionLocation)}
                            ELSE @ \ {EntryPath(definitionLocation)}]
        S2 == updateParentDefinitionKeys(S1, task.parents, snip)
        symbolsSnippetRequests ==
            NestedRequests(task.req.symbolName, definitionLocation, definitionString)
    IN IF symbolsSnippetRequests = <<>>
       THEN Finish(S2, t, snip)
       ELSE LET id == Len(S2.relSets) + 1
                set2 == DefCacheSet(S2.defCache, S2.recency.def, definitionLocation,
                                    DefEntry(definitionString, id))
                S3 == [S2 EXCEPT
                          !.relSets = Append(@, <<>>),
                          !.defCache = set2[1],
                          !.recency.def = set2[2],
                          !.tasks[t].snip.rel = id]
            IN IF NextRecursionLimit(task.R) = 0
               THEN [S3 EXCEPT !.tasks[t].pc = "childrenDone",
                               !.runq = Append(@, t)]
               ELSE Spawn([S3 EXCEPT !.tasks[t].pc = "awaitChildren"], t,
                          symbolsSnippetRequests, NextRecursionLimit(task.R),
                          NewSet(<<EntryPath(definitionLocation)>> \o task.parents))

\* getSymbolSnippetForNodeType, lines 156-178: the getter loop continues.
\* What the loop's end would do if it left the cache alone.
AfterGetter_NoDelete(S, t) ==
    LET task == S.tasks[t]
        snip == task.snip
    IN IF snip.present /\ snip.hasContent
       THEN Resolved(S, t)
       ELSE IF task.gi < Len(Getters(task.req.nodeType))
       THEN StartGetter([S EXCEPT !.tasks[t].gi = @ + 1, !.tasks[t].pc = "start"], t)
       ELSE Finish(S, t, NoSnip)

\* What the loop would do if it tried every getter before looking at the
\* content.
AfterGetter_KeepTrying(S, t) ==
    LET task == S.tasks[t]
        snip == task.snip
    IN IF task.gi < Len(Getters(task.req.nodeType))
       THEN StartGetter([S EXCEPT !.tasks[t].gi = @ + 1, !.tasks[t].pc = "start"], t)
       ELSE IF snip.present /\ snip.hasContent
       THEN Resolved(S, t)
       ELSE IF ~snip.present
       THEN Finish(S, t, NoSnip)
       ELSE LET deleted == DefCacheDelete(S.defCache, S.recency.def, snip.loc)
            IN Finish([S EXCEPT !.defCache = deleted[1], !.recency.def = deleted[2]],
                      t, NoSnip)

AfterGetter(S, t) ==
    LET task == S.tasks[t]
        snip == task.snip
    IN IF snip.present /\ snip.hasContent
       THEN Resolved(S, t)
       ELSE IF task.gi < Len(Getters(task.req.nodeType))
       THEN StartGetter([S EXCEPT !.tasks[t].gi = @ + 1, !.tasks[t].pc = "start"], t)
       ELSE IF ~snip.present
       THEN Finish(S, t, NoSnip)
       ELSE LET deleted == DefCacheDelete(S.defCache, S.recency.def, snip.loc)
            IN Finish([S EXCEPT !.defCache = deleted[1], !.recency.def = deleted[2]],
                      t, NoSnip)

\* getSymbolSnippetForNodeType, lines 223-228.
ChildrenDone(S, t) == Finish(S, t, S.tasks[t].snip)

\* getSymbolContextSnippets / getSymbolContextSnippetsRecursive, lines 235-270.
\* getSymbolContextSnippets called in slot; maxChars is the hint of the
\* retrieve call that awaits it, -1 if the engine is called directly.
StartCallWith(S, slot, requests, recursionLimit, maxChars) ==
    LET kept == [x \in {y \in DOMAIN S.tasks : y[1] # slot} |-> S.tasks[x]]
        S1 == [S EXCEPT !.tasks = kept,
                        !.retr[slot] = [status |-> "running", R |-> recursionLimit,
                                        n |-> Len(requests), aborted |-> FALSE,
                                        result |-> <<>>, startVer |-> S.ver,
                                        maxChars |-> maxChars, returned |-> <<>>],
                        !.hist.starts = @ + 1]
    IN IF recursionLimit = 0
       THEN [S1 EXCEPT !.retr[slot].status = "resolved"]
       ELSE CompleteRetrieval(Spawn(S1, <<slot>>, requests, recursionLimit, <<>>), slot)

StartCallIn(S, slot, requests, recursionLimit) ==
    StartCallWith(S, slot, requests, recursionLimit, -1)


(***************************************************************************)
(* invalidateDocumentCache, and what the history records about it.         *)
(***************************************************************************)
Paths(m) == {p \in (DOMAIN m) \X UNION {DOMAIN m[x] : x \in DOMAIN m} :
                p[2] \in DOMAIN m[p[1]]}

ClearAgain(ts) == [t \in DOMAIN ts |-> [ts[t] EXCEPT !.again = FALSE]]

\* The hover calls that the language server has answered from the document
\* before this invalidation and whose answer has not arrived yet.
MarkPreInv(ts, inflight, uriString) ==
    [t \in DOMAIN ts |->
        IF t \in inflight /\ ts[t].pc = "awaitHover" /\ ts[t].snip.loc.uri = uriString
        THEN [ts[t] EXCEPT !.preInv = TRUE]
        ELSE ts[t]]

invalidateDocumentCache(S, uriString) ==
    LET deleted == DefCacheDeleteDocument(S.defCache, S.recency.def, uriString)
        dc1 == deleted[1]
        inv == invalidateEntriesForDocument(S.locCache, S.recency.loc, S.docToKeys,
                                            uriString)
        goneDefs == Paths(S.defCache) \ Paths(dc1)
        goneLocs == {<<p, S.locCache[p[1]][p[2]]>> : p \in Paths(S.locCache) \ Paths(inv[1])}
        stale == {x \in S.hist.resolvedAt : x[2] = uriString}
    IN [S EXCEPT !.defCache = dc1,
                 !.locCache = inv[1],
                 !.recency = [def |-> deleted[2], loc |-> inv[2]],
                 !.docToKeys = inv[3],
                 !.tasks = MarkPreInv(ClearAgain(@), S.active, uriString),
                 !.hist.staleDefs = {p \in @ : p[1] # uriString},
                 !.hist.lastInv = [uri |-> uriString, defs |-> goneDefs, locs |-> goneLocs],
                 !.hist.resolved = {},
                 !.hist.resolvedAt = @ \ stale,
                 !.hist.needFresh = @ \cup {x[1] : x \in {y \in stale : y[1].uri # uriString}},
                 !.hist.owed = @ \ {uriString}]

(***************************************************************************)
(* AbortController.abort() of a call: the limiter drops the operations     *)
(* that wait for admission with that signal; they settle as empty.         *)
(***************************************************************************)
RECURSIVE DropAborted(_, _, _)
DropAborted(q, ts, slot) ==
    IF q = <<>> THEN <<>>
    ELSE IF Head(q)[1] = slot /\ ts[Head(q)].pc = "awaitHover"
         THEN DropAborted(Tail(q), ts, slot)
         ELSE <<Head(q)>> \o DropAborted(Tail(q), ts, slot)

RECURSIVE MarkAborted(_, _)
MarkAborted(ts, dropped) ==
    IF dropped = <<>> THEN ts
    ELSE MarkAborted([ts EXCEPT ![Head(dropped)].pc = "hoverAborted"], Tail(dropped))

RECURSIVE Minus(_, _)
Minus(q, kept) ==
    IF q = <<>> THEN <<>>
    ELSE IF Head(q) \in Range(kept) THEN Minus(Tail(q), kept)
    ELSE <<Head(q)>> \o Minus(Tail(q), kept)

AbortCall(S, slot) ==
    IF slot = 0 \/ S.retr[slot].status # "running" THEN S
    ELSE LET kept == DropAborted(S.queue, S.tasks, slot)
             dropped == Minus(S.queue, kept)
         IN [S EXCEPT !.retr[slot].aborted = TRUE,
                      !.queue = kept,
                      !.tasks = MarkAborted(@, dropped),
                      !.runq = @ \o dropped]

(***************************************************************************)
(* Initial state.                                                          *)
(***************************************************************************)
IdleCall ==
    [status |-> "idle", R |-> 0, n |-> 0, aborted |-> FALSE, result |-> <<>>,
     startVer |-> [d \in Docs |-> 0], maxChars |-> -1, returned |-> <<>>]

NoChange == [pending |-> FALSE, uri |-> "", changes |-> 0]
NoSelection == [pending |-> FALSE, uri |-> "", line |-> 0]

NoProbe == [symbolName |-> <<>>, symbolSnippet |-> <<>>, judged |-> FALSE,
            unhelpful |-> FALSE]

\* The engine after construction: empty caches, nothing running.
InitEngine(slots) ==
    /\ ver = [d \in Docs |-> 0]
    /\ defCache = EmptyMap
    /\ locCache = EmptyMap
    /\ docToKeys = EmptyMap
    /\ recency = [def |-> NoOrder, loc |-> NoOrder]
    /\ relSets = <<>>
    /\ tasks = EmptyMap
    /\ runq = <<>>
    /\ active = {}
    /\ queue = <<>>
    /\ retr = [s \in 1..slots |-> IdleCall]
    /\ lastRequestKey = <<>>
    /\ lastSlot = 0
    /\ pendingChange = NoChange
    /\ pendingSelection = NoSelection
    /\ subscribed = TRUE
    /\ hist = [lastInv |-> NoInv, resolved |-> {}, resolvedAt |-> {},
               needFresh |-> {}, staleDefs |-> {}, owed |-> {}, starts |-> 0,
               events |-> 0,
               edits |-> 0, faults |-> 0, disposed |-> FALSE]

InitWith(slots) ==
    /\ InitEngine(slots)
    /\ probe = NoProbe


(***************************************************************************)
(* Actions.                                                                *)
(***************************************************************************)
Idle == runq = <<>>

FreeSlots ==
    {s \in DOMAIN retr : /\ retr[s].status # "running"
                   /\ \A t \in DOMAIN tasks : t[1] = s => Settled(tasks[t].pc)}

LowestFree == CHOOSE s \in FreeSlots : \A o \in FreeSlots : s <= o

\* A caller invokes getSymbolContextSnippets({symbolsSnippetRequests, recursionLimit}).
GetSymbolContextSnippets(requests, recursionLimit) ==
    /\ Idle
    /\ hist.starts < MaxStarts
    /\ FreeSlots # {}
    /\ Commit(StartCallIn(Forget(Pack), LowestFree, requests, recursionLimit))
    /\ lastSlot' = IF LowestFree = lastSlot THEN 0 ELSE lastSlot
    /\ UNCHANGED <<lastRequestKey, pendingChange, pendingSelection, subscribed>>

\* LspLightRetriever.retrieve({document, position, hints: {maxChars}}) up to
\* its await. The request key is the document, the line and the text of the
\* line, joined by a separator that neither a uri nor a line number holds;
\* the one identifier at the position, if any, is resolved with recursion
\* limit 3.
RequestKey(uri, line, v) == <<uri, line, LineAt(uri, line, v)>>

\* What retrieve would do if it aborted the last call whatever the key.
RetrieveIn_AlwaysAbort(S, uri, line, maxChars, slot, key) ==
    LET found == {r \in TopRequests : r.uri = uri /\ r.line = line}
        symbolsSnippetRequests ==
            IF found = {} THEN <<>> ELSE <<CHOOSE r \in found : TRUE>>
    IN StartCallWith(AbortCall(Forget(S), lastSlot), slot, symbolsSnippetRequests,
                     RetrieveRecursionLimit, maxChars)

RetrieveIn(S, uri, line, maxChars, slot, key) ==
    LET found == {r \in TopRequests : r.uri = uri /\ r.line = line}
        symbolsSnippetRequests ==
            IF found = {} THEN <<>> ELSE <<CHOOSE r \in found : TRUE>>
        S1 == IF lastRequestKey # key THEN AbortCall(Forget(S), lastSlot)
              ELSE Forget(S)
    IN StartCallWith(S1, slot, symbolsSnippetRequests, RetrieveRecursionLimit, maxChars)

\* The call retrieve(...) of a caller or of the selection handler.
CallRetrieve(uri, line, maxChars) ==
    /\ hist.starts < MaxStarts
    /\ FreeSlots # {}
    /\ LET key == RequestKey(uri, line, ver)
           slot == LowestFree
       IN /\ Commit(RetrieveIn(Pack, uri, line, maxChars, slot, key))
          /\ lastRequestKey' = key
          /\ lastSlot' = slot

\* A caller invokes retrieve; nothing keeps it from doing so after dispose().
Retrieve(uri, line, maxChars) ==
    /\ Idle
    /\ CallRetrieve(uri, line, maxChars)
    /\ UNCHANGED <<pendingChange, pendingSelection, subscribed>>

\* The event loop runs the next microtask.
RunMicrotask ==
    /\ runq # <<>>
    /\ LET t == Head(runq)
           S == Forget([Pack EXCEPT !.runq = Tail(runq)])
           pc == tasks[t].pc
       IN Commit(IF pc = "start" THEN StartGetter(S, t)
                 ELSE IF pc = "afterGetter" THEN AfterGetter(S, t)
                 ELSE IF pc = "hoverAborted" THEN GotHover(S, t, <<>>)
                 ELSE ChildrenDone(S, t))
    /\ UNCHANGED <<lastRequestKey, lastSlot, pendingChange, pendingSelection, subscribed>>

\* The language server answers a call that is in flight.
ProviderReturns(t) ==
    /\ Idle
    /\ t \in active
    /\ LET S == LimiterRelease(Forget(Pack), t)
       IN Commit(IF tasks[t].pc = "awaitLoc"
                 THEN GotLocations(S, t, tasks[t].resp.locs)
                 ELSE GotHover(S, t, tasks[t].resp.hover))
    /\ UNCHANGED <<lastRequestKey, lastSlot, pendingChange, pendingSelection, subscribed>>

\* The call that is in flight throws (rejects): nothing catches it.
ProviderThrows(t) ==
    /\ Idle
    /\ t \in active
    /\ hist.faults < MaxFaults
    /\ Commit(RejectUp([LimiterRelease(Forget(Pack), t) EXCEPT !.hist.faults = @ + 1], t))
    /\ UNCHANGED <<lastRequestKey, lastSlot, pendingChange, pendingSelection, subscribed>>

\* The limiter's timer fires for a call in flight: its result is empty.
LimiterTimeout(t) ==
    /\ Idle
    /\ t \in active
    /\ hist.faults < MaxFaults
    /\ LET S == [LimiterRelease(Forget(Pack), t) EXCEPT !.hist.faults = @ + 1]
       IN Commit(IF tasks[t].pc = "awaitLoc"
                 THEN GotLocations(S, t, <<>>)
                 ELSE GotHover(S, t, <<>>))
    /\ UNCHANGED <<lastRequestKey, lastSlot, pendingChange, pendingSelection, subscribed>>

\* vscode.workspace.openTextDocument answers; the range is read from the
\* document as it is now.
TextReturns(t) ==
    /\ Idle
    /\ t \in DOMAIN tasks
    /\ tasks[t].pc \in {"awaitText1", "awaitText2"}
    /\ Commit(GotText(Forget(Pack), t, getTextFromLocation(tasks[t].snip.loc, ver)))
    /\ UNCHANGED <<lastRequestKey, lastSlot, pendingChange, pendingSelection, subscribed>>

\* LspLightRetriever.dispose(): abortLastRequest() and the disposal of the
\* two event subscriptions. The timers of the two debounced handlers are not
\* cancelled: an event that waits is still handled. dispose() may be called
\* again: it aborts the call that was started last, if that call still runs.
Dispose ==
    /\ Idle
    /\ Commit([AbortCall(Forget(Pack), lastSlot) EXCEPT !.hist.disposed = TRUE])
    /\ subscribed' = FALSE
    /\ UNCHANGED <<lastRequestKey, lastSlot, pendingChange, pendingSelection>>

\* The host reports a change of a document. edit: the change alters the text
\* of the document's definitions. While the retriever is subscribed, its
\* handler is called; it is debounced, so the event replaces the one that was
\* waiting and restarts the timer.
ChangeEvent(uri, changes, edit) ==
    /\ Idle
    /\ hist.events < MaxEvents
    /\ edit => /\ uri \in Docs
               /\ changes > 0
               /\ hist.edits < MaxEdits
    /\ ver' = IF edit THEN [ver EXCEPT ![uri] = @ + 1] ELSE ver
    /\ pendingChange' = IF subscribed
                        THEN [pending |-> TRUE, uri |-> uri, changes |-> changes]
                        ELSE pendingChange
    /\ tasks' = IF edit THEN ClearAgain(tasks) ELSE tasks
    /\ hist' = [hist EXCEPT
                   !.lastInv = NoInv,
                   !.events = @ + 1,
                   !.edits = IF edit THEN @ + 1 ELSE @,
                   !.resolved = IF edit THEN {} ELSE @,
                   !.owed = IF subscribed /\ changes > 0 /\ Scheme(uri) = "file"
                            THEN @ \cup {uri} ELSE @]
    /\ UNCHANGED <<defCache, locCache, docToKeys, recency, relSets, runq, active, queue,
                   retr, lastRequestKey, lastSlot, pendingSelection, subscribed, probe>>

\* The debounce timer fires: onDidChangeTextDocument(event) runs.
DebounceFire ==
    /\ Idle
    /\ pendingChange.pending
    /\ pendingChange' = NoChange
    /\ IF pendingChange.changes = 0 \/ Scheme(pendingChange.uri) # "file"
       THEN Commit(Forget(Pack))
       ELSE Commit(invalidateDocumentCache(Pack, pendingChange.uri))
    /\ UNCHANGED <<lastRequestKey, lastSlot, pendingSelection, subscribed>>

\* The host reports that the cursor is at a line of a document: while the
\* retriever is subscribed, its debounced handler is called and waits with
\* this event.
SelectionEvent(uri, line) ==
    /\ Idle
    /\ hist.events < MaxEvents
    /\ pendingSelection' = IF subscribed
                           THEN [pending |-> TRUE, uri |-> uri, line |-> line]
                           ELSE pendingSelection
    /\ Commit([Forget(Pack) EXCEPT !.hist.events = @ + 1])
    /\ UNCHANGED <<lastRequestKey, lastSlot, pendingChange, subscribed>>

\* The timer of the selection handler fires: onDidChangeTextEditorSelection
\* runs and, for a document of a supported language, starts a preloading
\* retrieve call (maxChars 0).
SelectionFire ==
    /\ Idle
    /\ pendingSelection.pending
    /\ pendingSelection' = NoSelection
    /\ IF isSupportedForLanguageId(LanguageId(pendingSelection.uri))
       THEN CallRetrieve(pendingSelection.uri, pendingSelection.line, 0)
       ELSE Commit(Forget(Pack)) /\ UNCHANGED <<lastRequestKey, lastSlot>>
    /\ UNCHANGED <<pendingChange, subscribed>>

(***************************************************************************)
(* Specifications. They share the actions and differ in the inputs the     *)
(* environment chooses from.                                               *)
(***************************************************************************)
\* Spec: one caller at a time resolves lists of requests while the documents
\* change; no call fails. The list of a property and an identifier is resolved
\* with the recursion limit 1 only.
RequestLists ==
    {<<>>, <<ReqFoo1>>, <<ReqFoo2>>, <<ReqBar>>, <<ReqQux>>, <<ReqZed>>,
     <<ReqFoo2, ReqFoo1>>}

Next ==
    \/ \E requests \in RequestLists, r \in 0..MaxR :
          GetSymbolContextSnippets(requests, r)
    \/ GetSymbolContextSnippets(<<ReqBar, ReqFoo1>>, 1)
    \/ RunMicrotask
    \/ \E t \in DOMAIN tasks : ProviderReturns(t)
    \/ \E t \in DOMAIN tasks : TextReturns(t)
    \/ \E uri \in Docs, edit \in BOOLEAN : ChangeEvent(uri, 1, edit)
    \/ DebounceFire

Init == InitWith(Callers)

Spec == Init /\ [][Next]_vars

\* SpecNotify: the host reports changes of file documents and of an untitled
\* one, with and without content changes, while one request is resolved.
NextNotify ==
    \/ \E uri \in NotifiedDocs, changes \in 0..1 : ChangeEvent(uri, changes, FALSE)
    \/ DebounceFire
    \/ GetSymbolContextSnippets(<<ReqFoo1>>, 1)
    \/ RunMicrotask
    \/ \E t \in DOMAIN tasks : ProviderReturns(t)

SpecNotify == Init /\ [][NextNotify]_vars

\* SpecFaults: completions are requested at lines of document A, a new one
\* while the last one may still run; a provider call may throw, may run into
\* the limiter's timeout, and a read of a document may never answer.
RetrieveLines == {0, 3, 4}

NextFaults ==
    \/ \E line \in RetrieveLines : Retrieve("A", line, 1)
    \/ GetSymbolContextSnippets(<<ReqZed, ReqFoo1>>, 1)
    \/ RunMicrotask
    \/ \E t \in DOMAIN tasks : ProviderReturns(t)
    \/ \E t \in DOMAIN tasks : ProviderThrows(t)
    \/ \E t \in DOMAIN tasks : LimiterTimeout(t)
    \/ \E t \in DOMAIN tasks : TextReturns(t)

InitFaults == InitWith(MaxSlots)

SpecFaults == InitFaults /\ [][NextFaults]_vars

\* SpecAssembly: one caller resolves pairs of requests whose definitions
\* mention each other, while B is edited and A is reported as changed.
AssemblyLists == {<<ReqBar, ReqFoo1>>, <<ReqFoo2, ReqFoo1>>}

NextAssembly ==
    \/ \E requests \in AssemblyLists, r \in 1..MaxR :
          GetSymbolContextSnippets(requests, r)
    \/ RunMicrotask
    \/ \E t \in DOMAIN tasks : ProviderReturns(t)
    \/ \E t \in DOMAIN tasks : TextReturns(t)
    \/ \E uri \in Docs : ChangeEvent(uri, 1, uri = "B")
    \/ DebounceFire

SpecAssembly == Init /\ [][NextAssembly]_vars

\* Resolutions of an identifier whose hover is a fenced one-line class with
\* a body, next to one whose hover is the bare class declaration.
HoverLists == {<<ReqFoo3>>, <<ReqFoo3, ReqFoo1>>}

NextHover ==
    \/ \E requests \in HoverLists, r \in 1..MaxR : GetSymbolContextSnippets(requests, r)
    \/ RunMicrotask
    \/ \E t \in DOMAIN tasks : ProviderReturns(t)
    \/ \E t \in DOMAIN tasks : TextReturns(t)
    \/ \E uri \in Docs : ChangeEvent(uri, 1, uri = "B")
    \/ DebounceFire

SpecHover == Init /\ [][NextHover]_vars

\* Definitions that name more identifiers than the engine follows, the
\* symbol itself and a common keyword among them, and a retrieval of the
\* definitions that refer to each other.
NestedLists == {<<ReqWid>>, <<ReqMix>>, <<ReqZedP>>}

NextNested ==
    \/ \E requests \in NestedLists, r \in 1..MaxR : GetSymbolContextSnippets(requests, r)
    \/ Retrieve("A", 0, 1)
    \/ RunMicrotask
    \/ \E t \in DOMAIN tasks : ProviderReturns(t)
    \/ \E t \in DOMAIN tasks : TextReturns(t)

SpecNested == Init /\ [][NextNested]_vars

\* Requests whose providers answer with links, with locations and with
\* both: the type-definition, the implementation and, for the nested
\* requests, the definition provider.
LocationLists == {<<ReqFoo4, ReqBar>>, <<ReqFoo2, ReqFoo1>>}

NextLocations ==
    \/ \E requests \in LocationLists, r \in 1..MaxR : GetSymbolContextSnippets(requests, r)
    \/ RunMicrotask
    \/ \E t \in DOMAIN tasks : ProviderReturns(t)
    \/ \E t \in DOMAIN tasks : TextReturns(t)

SpecLocations == Init /\ [][NextLocations]_vars

\* Requests that end without content (Zed as an identifier, Qux) next to
\* requests that get content, one of them at the definition of Zed.
ContentLists == {<<ReqZedP, ReqZed>>, <<ReqZed, ReqQux, ReqFoo1>>}

NextContent ==
    \/ \E requests \in ContentLists, r \in 1..MaxR : GetSymbolContextSnippets(requests, r)
    \/ RunMicrotask
    \/ \E t \in DOMAIN tasks : ProviderReturns(t)
    \/ \E t \in DOMAIN tasks : TextReturns(t)

SpecContent == Init /\ [][NextContent]_vars

\* Retrievals with and without the cache-warming hint.
MaxCharsHints == {0, 1}
WarmLines == {0, 3}

NextWarm ==
    \/ \E line \in WarmLines, maxChars \in MaxCharsHints : Retrieve("A", line, maxChars)
    \/ RunMicrotask
    \/ \E t \in DOMAIN tasks : ProviderReturns(t)
    \/ \E t \in DOMAIN tasks : TextReturns(t)

SpecWarm == InitFaults /\ [][NextWarm]_vars

\* Lists of three and of two requests: one request stays unresolved, the
\* others resolve, one of them from a list of two locations, and at
\* recursion limit 2 their definitions are expanded.
ShapeLists == {<<ReqBar, ReqQux, ReqFoo1>>, <<ReqFoo2, ReqFoo1>>}

NextShape ==
    \/ \E requests \in ShapeLists, r \in 1..MaxR : GetSymbolContextSnippets(requests, r)
    \/ RunMicrotask
    \/ \E t \in DOMAIN tasks : ProviderReturns(t)
    \/ \E t \in DOMAIN tasks : TextReturns(t)

SpecShape == Init /\ [][NextShape]_vars

\* One request at a time, so that the outcome of a call does not depend on
\* the order in which siblings complete: the class Foo, a variable of that
\* type, and a property and an identifier with the same definition.
SingleLists == {<<ReqFoo3>>, <<ReqZedV>>, <<ReqZedP>>, <<ReqZed>>, <<ReqFoo1>>}

NextSingle ==
    \/ \E requests \in SingleLists, r \in 1..MaxR : GetSymbolContextSnippets(requests, r)
    \/ RunMicrotask
    \/ \E t \in DOMAIN tasks : ProviderReturns(t)
    \/ \E t \in DOMAIN tasks : TextReturns(t)

SpecSingle == Init /\ [][NextSingle]_vars

\* The translation of nested positions on its own: a class of two lines,
\* indented by C0 characters, whose range starts at line L0, character C0;
\* its first line names Pip, its second line Foo.
ClassPipFirstLine == KwClass \o Sp \o Pip \o <<"{">>
ClassPipSecondLine(C0) == Spaces(C0 + 1) \o <<"x", ":">> \o Foo \o <<"}">>

\* The lines of the document that holds the class.
DocumentLines(L0, C0) ==
    [i \in 1..L0 |-> <<>>] \o <<Spaces(C0) \o ClassPipFirstLine, ClassPipSecondLine(C0)>>

ClassPipLocation(L0, C0) == Loc("B", L0, C0, L0 + 1, Len(ClassPipSecondLine(C0)))

\* document.getText(range) for a range of two lines.
GetTextOfLines(documentLines, range) ==
    SubSeq(documentLines[range.startLine + 1], range.startCharacter + 1,
           Len(documentLines[range.startLine + 1]))
    \o NL \o SubSeq(documentLines[range.endLine + 1], 1, range.endCharacter)

\* lines 185-200 for a property of the type Pip, whose definition is
\* extracted as the source text of the class.
TranslateNested ==
    /\ ~probe.done
    /\ LET definitionLocation == ClassPipLocation(probe.L0, probe.C0)
           definitionString == GetTextOfLines(DocumentLines(probe.L0, probe.C0),
                                              definitionLocation.range)
       IN probe' = [probe EXCEPT
                       !.done = TRUE,
                       !.requests = NestedRequests(Zed, definitionLocation,
                                                   definitionString)]
    /\ UNCHANGED <<ver, defCache, locCache, docToKeys, recency, relSets, tasks, runq,
                   active, queue, retr, lastRequestKey, lastSlot, pendingChange,
                   pendingSelection, subscribed, hist>>

InitTranslate ==
    /\ InitEngine(Callers)
    /\ probe \in [L0 : 0..MaxL0, C0 : 0..MaxC0, done : {FALSE}, requests : {<<>>}]

NextTranslate == TranslateNested

SpecTranslate == InitTranslate /\ [][NextTranslate]_vars

\* The retriever in use and disposed: retrievals of a line by a caller and
\* by the selection handler, selections in a document of a supported
\* language and in one of another language, and changes of B.
NextDispose ==
    \/ Retrieve("A", 0, 1)
    \/ \E uri \in {"A", "U"} : SelectionEvent(uri, 0)
    \/ SelectionFire
    \/ Dispose
    \/ ChangeEvent("B", 1, FALSE)
    \/ DebounceFire
    \/ RunMicrotask
    \/ \E t \in DOMAIN tasks : ProviderReturns(t)
    \/ \E t \in DOMAIN tasks : TextReturns(t)

SpecDispose == InitFaults /\ [][NextDispose]_vars

\* Retrievals at a line whose text an edit of A alters (line 5) and at one
\* it leaves alone (line 0), while A is edited.
RetrieverLines == {0, 5}

NextKey ==
    \/ \E line \in RetrieverLines : Retrieve("A", line, 1)
    \/ ChangeEvent("A", 1, TRUE)
    \/ DebounceFire
    \/ RunMicrotask
    \/ \E t \in DOMAIN tasks : ProviderReturns(t)
    \/ \E t \in DOMAIN tasks : TextReturns(t)

SpecKey == InitFaults /\ [][NextKey]_vars

\* isUnhelpfulSymbolSnippet on its own: the candidate texts are a leading
\* part, a name and a trailing part.
ProbeNames == {Foo, Bar}
InterfaceBody == Sp \o <<"{">> \o Sp \o <<"b", "a", "r", "(", ")", ":">> \o Sp
                 \o <<"v", "o", "i", "d">> \o Sp \o <<"}">>
ProbeLeads ==
    {<<>>, Sp, NL, KwInterface \o Sp, KwClass \o Sp, KwEnum \o Sp, KwType \o Sp,
     Sp \o KwInterface \o Sp, KwExport \o Sp \o KwClass \o Sp}
ProbeCores == {<<>>, Foo, Bar}
ProbeTails == {<<>>, Sp, <<"\t">> \o NL, <<"\r">>, <<" ">>, InterfaceBody, <<"{">>}
ProbeSnippets == {l \o c \o t : l \in ProbeLeads, c \in ProbeCores, t \in ProbeTails}

\* The call isUnhelpfulSymbolSnippet(symbolName, symbolSnippet) returns.
Judge ==
    /\ ~probe.judged
    /\ probe.symbolName # <<>>
    /\ probe' = [probe EXCEPT
                     !.judged = TRUE,
                     !.unhelpful = isUnhelpfulSymbolSnippet(probe.symbolName,
                                                            probe.symbolSnippet)]
    /\ UNCHANGED <<ver, defCache, locCache, docToKeys, recency, relSets, tasks, runq,
                   active, queue, retr, lastRequestKey, lastSlot, pendingChange,
                   pendingSelection, subscribed, hist>>

InitUnhelpful ==
    /\ InitEngine(Callers)
    /\ probe \in [symbolName : ProbeNames, symbolSnippet : ProbeSnippets,
                   judged : {FALSE}, unhelpful : {FALSE}]

NextUnhelpful == Judge

SpecUnhelpful == InitUnhelpful /\ [][NextUnhelpful]_vars

(***************************************************************************)
(* Claims.                                                                 *)
(***************************************************************************)
\* C1: a request that has been resolved to a snippet (since the last
\* invalidation and the last edit) is resolved again without any call to a
\* location provider or to the hover provider.
C1_NoSecondProviderCall ==
    \A t \in DOMAIN tasks :
        tasks[t].again => ~tasks[t].calledLoc /\ ~tasks[t].calledHover

TargetsDocument(locations, uri) == \E i \in 1..Len(locations) : locations[i].uri = uri

\* C2: right after invalidateDocumentCache(D) the definition cache has no
\* entry of D and the definition-location cache has no entry, in any
\* document's bucket, whose list holds a location in D.
C2_InvalidationRemovesTargets ==
    hist.lastInv.uri # "" =>
        /\ \A p \in Paths(defCache) : p[1] # hist.lastInv.uri
        /\ \A p \in Paths(locCache) :
               ~TargetsDocument(locCache[p[1]][p[2]], hist.lastInv.uri)

\* C2 witness: B was invalidated and that removed a definition of B and a
\* location entry requested from A whose list points into B.
C2_Witness ==
    /\ hist.lastInv.uri = "B"
    /\ hist.lastInv.defs # {}
    /\ \E e \in hist.lastInv.locs : e[1][1] = "A" /\ TargetsDocument(e[2], "B")

\* C3: invalidateDocumentCache(D) removes only definition-cache entries of D
\* and only location entries whose cached list holds a location in D.
C3_InvalidationLeavesOthers ==
    hist.lastInv.uri # "" =>
        /\ \A d \in hist.lastInv.defs : d[1] = hist.lastInv.uri
        /\ \A e \in hist.lastInv.locs : TargetsDocument(e[2], hist.lastInv.uri)

\* C4: the first resolution of a request of document A after the document B
\* of its definition was invalidated calls a location provider again, and
\* the content it returns was extracted (hover or source text) after the
\* invalidation, by itself or by a call whose extraction began afterwards.
C4_FreshAfterInvalidation ==
    \A t \in DOMAIN tasks :
        tasks[t].mustFresh =>
            /\ tasks[t].snip.present => tasks[t].calledLoc
            /\ tasks[t].snip.hasContent =>
                   \/ tasks[t].calledHover
                   \/ tasks[t].readText
                   \/ ~tasks[t].hitStale

DefinitionLocations == {LFooB, LBarA, LFooA, LZedB}

\* C5: a call started after the change of a document was notified returns no
\* content of that document from before the change (own or merged content).
C5_NoStaleContent ==
    \A s \in DOMAIN retr :
        retr[s].status = "resolved" =>
            \A i \in 1..Len(retr[s].result) :
                \A loc \in DefinitionLocations, v \in 0..MaxEdits :
                    v < retr[s].startVer[loc.uri] =>
                        ~Includes(retr[s].result[i].content,
                                  SourceText(loc, [d \in Docs |-> v]))

\* The steps a call of getSymbolSnippetForNodeType still has to take, the
\* calls it may still make included: a getter passes through at most these
\* positions, a call makes at most NestedN calls with the next recursion limit.
GetterPositions ==
    {"start", "awaitLoc", "awaitHover", "hoverAborted", "awaitText1", "afterGetter"}

GetterSteps == Cardinality(GetterPositions) + 1

PcRank(pc) ==
    CASE pc = "start" -> 6
      [] pc = "awaitLoc" -> 5
      [] pc = "awaitHover" -> 4
      [] pc = "hoverAborted" -> 3
      [] pc \in {"awaitText1", "awaitText2"} -> 2
      [] pc = "afterGetter" -> 1
      [] OTHER -> 0

RECURSIVE Potential(_)
Potential(recursionLimit) ==
    IF recursionLimit <= 0 THEN 0
    ELSE 2 + 2 * GetterSteps + Cardinality(GetterPositions)
           + NestedN * Potential(recursionLimit - 1)

Weight(task) ==
    CASE task.pc \in {"done", "rejected"} -> 0
      [] task.pc = "childrenDone" -> 1
      [] task.pc = "awaitChildren" -> 2
      [] OTHER -> 2 + (Len(Getters(task.req.nodeType)) - task.gi) * GetterSteps
                    + PcRank(task.pc) + NestedN * Potential(task.R - 1)

RECURSIVE SumWeights(_, _)
SumWeights(ts, paths) ==
    IF paths = {} THEN 0
    ELSE LET t == CHOOSE x \in paths : TRUE
         IN Weight(ts[t]) + SumWeights(ts, paths \ {t})

Measure(ts) == SumWeights(ts, DOMAIN ts)

Positions(ts) == [t \in DOMAIN ts |-> <<ts[t].pc, ts[t].gi>>]

RecursionBounded ==
    /\ \A t \in DOMAIN tasks :
           /\ tasks[t].R >= 1
           /\ tasks[t].R = retr[t[1]].R - (Len(t) - 2)
    /\ \A s \in DOMAIN retr :
           /\ retr[s].status # "idle" /\ retr[s].R = 0 =>
                 /\ retr[s].status = "resolved"
                 /\ retr[s].result = <<>>
                 /\ \A t \in DOMAIN tasks : t[1] # s
           /\ retr[s].status = "running" =>
                 \/ runq # <<>>
                 \/ \E t \in DOMAIN tasks :
                        /\ t[1] = s
                        /\ \/ t \in active
                           \/ tasks[t].pc \in {"awaitText1", "awaitText2"}

\* C7: no call of getSymbolSnippetForNodeType runs at a depth beyond the
\* recursion limit of its getSymbolContextSnippets call, the limit goes down
\* by one per level, and a call with limit 0 resolves nothing. A running
\* call always has a step to take, once the call it waits for completes, and
\* every step of the engine lowers the number of steps that remain: the call
\* terminates, on cyclic definition graphs too.
C7_RecursionTerminates ==
    /\ []RecursionBounded
    /\ [][(Positions(tasks') # Positions(tasks) /\ hist'.starts = hist.starts)
              => Measure(tasks') < Measure(tasks)]_vars

\* C7 witness: in the cyclic graph (Foo mentions Bar, Bar mentions Foo) a call
\* with limit 2 has resolved a definition two hops deep and has returned.
C7_Witness ==
    \E t \in DOMAIN tasks :
        /\ Len(t) = 3
        /\ retr[t[1]].R = 2
        /\ retr[t[1]].status = "resolved"
        /\ tasks[t].pc = "done"
        /\ tasks[t].snip.present
        /\ tasks[t].snip.symbol = Bar

\* C6: once no debounced handler call is waiting, every file document that
\* was notified with content changes has been invalidated since.
C6_EveryChangeInvalidates ==
    ~pendingChange.pending => hist.owed = {}

\* C8: a call of getSymbolContextSnippets never rejects, whatever the
\* provider calls do.
C8_NeverRejects ==
    \A s \in DOMAIN retr : retr[s].status # "rejected"

\* C9: every external call that a running resolution awaits is in the hands
\* of the limiter, whose timer ends the wait.
C9_EveryAwaitTimesOut ==
    \A t \in DOMAIN tasks :
        tasks[t].pc \in {"awaitLoc", "awaitHover", "awaitText1", "awaitText2"} =>
            t \in active \/ t \in Range(queue)

\* C10: a retrieval whose abort signal was triggered while it ran does not
\* reject.
C10_AbortNeverRejects ==
    \A s \in DOMAIN retr : retr[s].aborted => retr[s].status # "rejected"

\* C11: no language-server call (location getter or hover) is started for a
\* retrieval after its abort signal was triggered.
C11_NoCallAfterAbort ==
    \A t \in DOMAIN tasks : ~tasks[t].afterAbort

\* The language-server calls that were started and have neither answered
\* nor timed out.
InFlight ==
    {t \in DOMAIN tasks :
        tasks[t].pc \in {"awaitLoc", "awaitHover"} /\ t \notin Range(queue)}

\* C12: at most LimiterLimit language-server calls are in flight, and they
\* are the ones the limiter has admitted.
C12_BoundedConcurrency ==
    /\ Cardinality(InFlight) <= LimiterLimit
    /\ InFlight = active

\* C12 witness: LimiterLimit calls are in flight and another one waits.
C12_Witness ==
    /\ Cardinality(InFlight) = LimiterLimit
    /\ queue # <<>>

\* C13: the text of a definition is extracted (hover call or source read)
\* once: no resolution starts an extraction for a definition location while
\* another resolution is extracting it.
C13_OneExtractionPerDefinition ==
    \A t \in DOMAIN tasks : ~tasks[t].dupExtract

\* The snippets that the top-level calls of a getSymbolContextSnippets call
\* returned, in the order of the requests, before the assembly.
RECURSIVE TopSnippets(_, _)
TopSnippets(slot, i) ==
    IF <<slot, i>> \notin DOMAIN tasks THEN <<>>
    ELSE (IF tasks[<<slot, i>>].snip.present THEN <<tasks[<<slot, i>>].snip>> ELSE <<>>)
         \o TopSnippets(slot, i + 1)

Occurrences(parts, part) == Cardinality({j \in 1..Len(parts) : parts[j] = part})

\* C14: in every returned snippet the snippet's own content is the last part
\* of the assembled content and occurs in it once.
C14_OwnContentOnce ==
    \A s \in DOMAIN retr :
        retr[s].status = "resolved" =>
            LET own == TopSnippets(s, 1)
            IN /\ Len(retr[s].result) = Len(own)
               /\ \A i \in 1..Len(own) :
                      LET parts == SplitLines(retr[s].result[i].content)
                      IN /\ parts[Len(parts)] = own[i].content
                         /\ Occurrences(parts, own[i].content) = 1

\* C14 witness: a returned snippet whose Set of related keys holds its own
\* key (Foo mentions Bar, Bar mentions Foo) and the key of another definition.
C14_Witness ==
    \E s \in DOMAIN retr :
        /\ retr[s].status = "resolved"
        /\ \E i \in 1..Len(retr[s].result) :
               LET snip == retr[s].result[i]
               IN /\ snip.rel # 0
                  /\ EntryPath(snip.loc) \in Range(relSets[snip.rel])
                  /\ Len(relSets[snip.rel]) > 1

\* The related keys of a snippet that are not its own key and have a
\* definition-cache entry now (positions in the Set).
RelatedCached(snip) ==
    {j \in 1..Len(relSets[snip.rel]) :
        LET key == relSets[snip.rel][j]
        IN /\ key # EntryPath(snip.loc)
           /\ key[1] \in DOMAIN defCache
           /\ key[2] \in DOMAIN defCache[key[1]]}

CachedContent(key) == defCache[key[1]][key[2]].content

AssembledAsSpecified(s) ==
    LET own == TopSnippets(s, 1)
    IN /\ Len(retr[s].result) = Len(own)
       /\ \A i \in 1..Len(own) :
              IF own[i].rel = 0
              THEN retr[s].result[i].content = own[i].content
              ELSE LET parts == SplitLines(retr[s].result[i].content)
                       related == RelatedCached(own[i])
                   IN /\ Len(parts) = Cardinality(related) + 1
                      /\ parts[Len(parts)] = own[i].content
                      /\ {parts[j] : j \in 1..(Len(parts) - 1)} =
                             {CachedContent(relSets[own[i].rel][j]) : j \in related}

\* C15: when getSymbolContextSnippets returns, the content of a snippet with
\* related keys is the newline-join of the cached content of every related
\* key but its own (a key without a cache entry adds nothing), then its own
\* content; a snippet without related keys has its content unchanged.
C15_ResultAssembly ==
    [][\A s \in DOMAIN retr :
           (retr'[s] # retr[s] /\ retr'[s].status = "resolved")
               => AssembledAsSpecified(s)']_vars

\* C15 witness: a call has returned a snippet with a merged related
\* definition and a snippet without related keys.
C15_Witness ==
    \E s \in DOMAIN retr :
        /\ retr[s].status = "resolved"
        /\ Len(retr[s].result) = 2
        /\ \E i, j \in 1..2 :
               /\ retr[s].result[i].rel # 0
               /\ Len(SplitLines(retr[s].result[i].content)) > 1
               /\ retr[s].result[j].rel = 0

\* The order of the location providers that the specification gives.
SpecifiedOrder(nodeType) ==
    IF nodeType \in {"property_identifier", "type_identifier"}
    THEN <<"definition", "typeDefinition", "implementation">>
    ELSE <<"typeDefinition", "implementation", "definition">>

\* C16: the n-th location provider a request has in flight is the n-th of the order
\* for its node type; and the property-identifier request Bar, for which the
\* definition provider answers empty and the type-definition provider
\* answers a location, gets its snippet at that location.
C16_GetterOrder ==
    \A t \in DOMAIN tasks :
        /\ (tasks[t].pc = "awaitLoc" /\ t \in active) =>
               tasks[t].getter = SpecifiedOrder(tasks[t].req.nodeType)[tasks[t].gi]
        /\ (tasks[t].req = ReqBar /\ tasks[t].snip.present) => tasks[t].snip.loc = LBarA

\* C16 witness: Bar was resolved by its second getter, the type-definition
\* provider, and another request has gone on to its third getter.
C16_Witness ==
    /\ \E t \in DOMAIN tasks :
           /\ tasks[t].req = ReqBar
           /\ tasks[t].pc = "done"
           /\ tasks[t].snip.present
           /\ tasks[t].gi = 2
           /\ tasks[t].getter = "typeDefinition"
    /\ \E t \in DOMAIN tasks :
           /\ tasks[t].req.nodeType = "identifier"
           /\ tasks[t].gi = 3
           /\ tasks[t].getter = "definition"

\* The content of every snippet extracted at the definition loc.
ContentsAt(loc) ==
    {tasks[t].snip.content : t \in {u \in DOMAIN tasks :
        /\ tasks[u].snip.present
        /\ tasks[u].snip.hasContent
        /\ tasks[u].snip.loc = loc}}

\* C17, as stated: for the identifier Foo whose type definition has the
\* hover, in a code fence, of the one line "class Foo {}", the hover text is
\* judged unhelpful and the content is the source text of the definition range.
C17_FallsBackToSource ==
    /\ \A t \in DOMAIN tasks :
           (tasks[t].snip.loc = LFooC /\ tasks[t].calledHover /\ tasks[t].pc = "done")
               => tasks[t].readText
    /\ ContentsAt(LFooC) \subseteq {SourceText(LFooC, ver)}

\* C17, amended: "class Foo {}" is not the bare declaration "class Foo", so
\* the hover text is judged helpful and is the content, without a read of the
\* source; the bare declaration "class Foo" is judged unhelpful and is
\* replaced by the source text of the definition range.
C17_HoverKept ==
    /\ ContentsAt(LFooC) \subseteq {ClassFooBody}
    /\ \A t \in DOMAIN tasks : tasks[t].snip.loc = LFooC => ~tasks[t].readText
    /\ \A t \in DOMAIN tasks :
           (tasks[t].snip.loc = LFooA /\ tasks[t].calledHover /\ tasks[t].pc = "done")
               => tasks[t].readText
    /\ \A c \in ContentsAt(LFooA) :
           \E v \in 0..MaxEdits : c = SourceText(LFooA, [d \in Docs |-> v])

\* C17 witness: the request was resolved from the hover of "class Foo {}",
\* and another one, whose hover is "class Foo", from the source text.
C17_Witness ==
    /\ \E t \in DOMAIN tasks :
           /\ tasks[t].req = ReqFoo3
           /\ tasks[t].pc = "done"
           /\ tasks[t].calledHover
           /\ tasks[t].snip.content = ClassFooBody
    /\ \E t \in DOMAIN tasks :
           /\ tasks[t].snip.loc = LFooA
           /\ tasks[t].readText
           /\ tasks[t].snip.hasContent

\* text contains name, said by positions.
Contains(text, name) ==
    \E i \in 1..Len(text) : \E j \in i..Len(text) : SubSeq(text, i, j) = name

\* text is the declaration decl with nothing but white space around it.
IsBare(text, decl) ==
    \E i \in 1..Len(text) : \E j \in i..Len(text) :
        /\ SubSeq(text, i, j) = decl
        /\ \A k \in 1..(i - 1) : text[k] \in WhiteSpace
        /\ \A k \in (j + 1)..Len(text) : text[k] \in WhiteSpace

\* The filter as the specification words it.
SpecifiedUnhelpful(name, text) ==
    \/ text = <<>>
    \/ text = name
    \/ ~Contains(text, name)
    \/ \E kw \in {KwInterface, KwClass, KwEnum, KwType} : IsBare(text, kw \o Sp \o name)

\* C18: isUnhelpfulSymbolSnippet(name, text) is true exactly when text is
\* empty, equals name, does not contain name, or trimmed is one of
\* "interface name", "class name", "enum name", "type name"; "interface Foo"
\* is rejected for Foo and "interface Foo { bar(): void }" is accepted.
C18_UnhelpfulExactly ==
    probe.judged =>
        /\ probe.unhelpful = SpecifiedUnhelpful(probe.symbolName, probe.symbolSnippet)
        /\ (probe.symbolName = Foo /\ probe.symbolSnippet = KwInterface \o Sp \o Foo)
               => probe.unhelpful
        /\ (probe.symbolName = Foo
              /\ probe.symbolSnippet = KwInterface \o Sp \o Foo \o InterfaceBody)
               => ~probe.unhelpful

\* C18 witness: the interface with a body was judged, and accepted.
C18_Witness ==
    /\ probe.judged
    /\ probe.symbolName = Foo
    /\ probe.symbolSnippet = KwInterface \o Sp \o Foo \o InterfaceBody
    /\ ~probe.unhelpful

\* The engine's part of a state: the caches, the reverse index, the calls
\* and the limiter.
EngineOf(S) ==
    <<S.ver, S.defCache, S.locCache, S.docToKeys, S.recency, S.relSets, S.tasks, S.runq,
      S.active, S.queue>>

\* The same calls, without the hint and what was returned.
CallsOf(S) ==
    [s \in DOMAIN S.retr |-> [S.retr[s] EXCEPT !.maxChars = 1, !.returned = <<>>]]

\* A retrieve call with hints.maxChars = 0 has returned in slot s.
Warmed(s) ==
    /\ retr[s].status = "resolved"
    /\ retr[s].maxChars = 0

\* C19: a retrieve call with hints.maxChars = 0 returns the empty list, and
\* it starts the engine as the same call with maxChars > 0 does: the same
\* provider calls begin, the caches and the reverse index are the same.
C19_CacheWarming ==
    /\ [](\A s \in DOMAIN retr : Warmed(s) => retr[s].returned = <<>>)
    /\ [][\A line \in WarmLines :
             Retrieve("A", line, 0) =>
                 LET S == RetrieveIn(Pack, "A", line, 1, LowestFree,
                                     RequestKey("A", line, ver))
                 IN /\ EngineOf(Pack') = EngineOf(S)
                    /\ CallsOf(Pack') = CallsOf(S)]_vars

\* C19 witness: a cache-warming call has returned the empty list, the engine
\* had resolved a snippet for it, and its definition is in the cache.
C19_Witness ==
    \E s \in DOMAIN retr :
        /\ Warmed(s)
        /\ retr[s].returned = <<>>
        /\ retr[s].result # <<>>
        /\ DefCacheHas(defCache, retr[s].result[1].loc)

\* The requests of the call in slot s that ended with a snippet.
WithSnippet(s) ==
    {i \in 1..retr[s].n : /\ <<s, i>> \in DOMAIN tasks
                          /\ tasks[<<s, i>>].snip.present}

\* The call t gives up in this step: its last getter gave a location and no
\* content.
GivesUp(t) ==
    /\ tasks[t].pc = "afterGetter"
    /\ tasks[t].snip.present
    /\ ~tasks[t].snip.hasContent
    /\ t \in DOMAIN tasks'
    /\ tasks'[t].pc = "done"

\* C20: every element of the list getSymbolContextSnippets returns has its
\* content; a request for which no getter gave content adds no element, and
\* when it gives up there is no definition-cache entry at the location its
\* last getter gave.
C20_OnlyResolvedReturned ==
    /\ [](\A s \in DOMAIN retr :
            retr[s].status = "resolved" =>
                /\ \A i \in 1..Len(retr[s].result) :
                       /\ retr[s].result[i].present
                       /\ retr[s].result[i].hasContent
                /\ Len(retr[s].result) = Cardinality(WithSnippet(s))
                /\ \A i \in WithSnippet(s) : tasks[<<s, i>>].snip.hasContent)
    /\ [][\A t \in DOMAIN tasks :
             GivesUp(t) =>
                 /\ ~tasks'[t].snip.present
                 /\ ~DefCacheHas(defCache', tasks[t].snip.loc)]_vars

\* C20 witness: a call has returned fewer elements than it had requests, all
\* with content, after a request that found the definition of Zed gave up.
C20_Witness ==
    \E s \in DOMAIN retr :
        /\ retr[s].status = "resolved"
        /\ retr[s].result # <<>>
        /\ Len(retr[s].result) < retr[s].n
        /\ \E i \in 1..retr[s].n :
               /\ <<s, i>> \in DOMAIN tasks
               /\ tasks[<<s, i>>].req = ReqZed
               /\ tasks[<<s, i>>].calledHover
               /\ tasks[<<s, i>>].readText
               /\ ~tasks[<<s, i>>].snip.present

\* The location provider call of t is in flight.
LocationCallInFlight(t) == tasks[t].pc = "awaitLoc" /\ t \in active

\* What the provider called by t answered, before the conversion.
RawAnswer(t) ==
    RawLocations(tasks[t].getter, tasks[t].req.uri, tasks[t].req.line,
                 tasks[t].req.character, ver)

\* The location the specification gives for a provider's value.
SpecifiedLocation(value) ==
    IF "targetUri" \in DOMAIN value
    THEN [uri |-> value.targetUri, range |-> value.targetRange]
    ELSE value

\* C21: what a location getter returns is the provider's list with every link
\* (a value with a target URI) replaced by the location (targetUri,
\* targetRange), without the origin range, and every location unchanged; the
\* same for the definition, type-definition and implementation getters.
C21_LocationsNormalized ==
    \A t \in DOMAIN tasks :
        LocationCallInFlight(t) =>
            /\ Len(tasks[t].resp.locs) = Len(RawAnswer(t))
            /\ \A i \in 1..Len(RawAnswer(t)) :
                   /\ tasks[t].resp.locs[i] = SpecifiedLocation(RawAnswer(t)[i])
                   /\ DOMAIN tasks[t].resp.locs[i] = {"uri", "range"}

\* C21 witness: the implementation provider answered a link and a location,
\* and a definition provider answered a link.
C21_Witness ==
    /\ \E t \in DOMAIN tasks :
           /\ LocationCallInFlight(t)
           /\ tasks[t].getter = "implementation"
           /\ tasks[t].resp.locs = <<LFooC, LFooA>>
    /\ \E t \in DOMAIN tasks :
           /\ tasks[t].getter = "definition"
           /\ tasks[t].locs = <<LFooB>>

\* A getter of the call t has given a snippet with content.
FoundContent(t) ==
    /\ tasks[t].snip.present
    /\ tasks[t].snip.hasContent
    /\ tasks[t].pc \in {"afterGetter", "awaitChildren", "childrenDone", "done"}

\* C22: once a getter has given a request a snippet with content, the
\* request goes on to no later getter: its position in the getter list stays,
\* and it calls no location provider again.
C22_FirstGetterWins ==
    [][\A t \in DOMAIN tasks :
          (FoundContent(t) /\ hist'.starts = hist.starts) =>
              /\ t \in DOMAIN tasks'
              /\ tasks'[t].gi = tasks[t].gi
              /\ tasks'[t].getter = tasks[t].getter
              /\ tasks'[t].pc \notin {"start", "awaitLoc"}]_vars

\* C22 witness: a request that got its content from the first getter of
\* three has returned, having called that getter's provider only.
C22_Witness ==
    \E t \in DOMAIN tasks :
        /\ FoundContent(t)
        /\ tasks[t].pc = "done"
        /\ tasks[t].gi = 1
        /\ tasks[t].getter = Getters(tasks[t].req.nodeType)[1]
        /\ tasks[t].calledLoc

\* The getter of t has returned a snippet after its provider, called on a
\* miss of the location cache, answered a list that is not empty.
ProviderAnswered(t) ==
    /\ tasks[t].pc = "afterGetter"
    /\ tasks[t].snip.present
    /\ tasks[t].calledLoc
    /\ tasks[t].getter = Getters(tasks[t].req.nodeType)[tasks[t].gi]

\* C23: whenever a location provider, called on a miss, answers a list that
\* is not empty, the location cache afterwards holds the list under the
\* request's key, also when the definition was already in the definition
\* cache and when the extracted text was unhelpful.
C23_LocationCachePopulated ==
    \A t \in DOMAIN tasks :
        ProviderAnswered(t) =>
            /\ LocCacheHas(locCache, tasks[t].req)
            /\ LocCacheGet(locCache, tasks[t].req) = tasks[t].locs

\* The provider of the getter of t, called on a miss, has answered the
\* empty list.
AnsweredEmpty(t) ==
    /\ tasks[t].pc = "afterGetter"
    /\ ~tasks[t].snip.present
    /\ tasks[t].getter = Getters(tasks[t].req.nodeType)[tasks[t].gi]

\* Every list in the location cache lc has an element.
ListsNotEmpty(lc) ==
    \A uri \in DOMAIN lc : \A k \in DOMAIN lc[uri] : lc[uri][k] # <<>>

\* C24, as stated: every list in the location cache has an element, and a
\* request to which a provider has answered the empty list has no entry from
\* then on, so that a later resolution of it finds none and calls the
\* provider again.
C24_EmptyNeverCached ==
    /\ ListsNotEmpty(locCache)
    /\ \A t \in DOMAIN tasks :
           tasks[t].emptied => ~LocCacheHas(locCache, tasks[t].req)

\* In this step the call t has started a getter (lines 79-83): its first one,
\* or the next one of the loop.
GetterStarted(t) ==
    /\ t \in DOMAIN tasks
    /\ t \in DOMAIN tasks'
    /\ tasks'[t].req = tasks[t].req
    /\ \/ tasks[t].pc = "start" /\ tasks'[t].pc # "start"
       \/ tasks'[t].gi = tasks[t].gi + 1

\* In this step the call t has stored the list of its getter under the key
\* of its request (line 143): the list is not empty and the extraction at
\* its first location has succeeded.
StoredByGetter(t) ==
    /\ tasks'[t].pc = "afterGetter"
    /\ tasks'[t].snip.present
    /\ tasks'[t].snip.hasContent
    /\ tasks'[t].locs # <<>>
    /\ LocCacheGet(locCache', tasks'[t].req) = tasks'[t].locs

\* C24, amended: every list in the location cache has an element; when a
\* provider answers the empty list the request has no entry at that moment;
\* a request gets an entry only when one of its getters stores the list it
\* has extracted from, under the key of the request, which does not name the
\* getter; and a getter that starts calls its provider exactly if the request
\* has no entry, so a later resolution calls the provider again unless a
\* getter has stored a list since the empty answer.
C24_EmptyNotStored ==
    [][/\ ListsNotEmpty(locCache')
       /\ \A t \in DOMAIN tasks' :
             /\ AnsweredEmpty(t)' => ~LocCacheHas(locCache', tasks'[t].req)
             /\ (~LocCacheHas(locCache, tasks'[t].req)
                    /\ LocCacheHas(locCache', tasks'[t].req))
                  => \E u \in DOMAIN tasks' :
                         tasks'[u].req = tasks'[t].req /\ StoredByGetter(u)
             /\ GetterStarted(t) =>
                    (tasks'[t].pc = "awaitLoc"
                        <=> ~LocCacheHas(locCache, tasks[t].req))]_vars

\* C24 witness: the first provider of a request answers the empty list and
\* its second getter has stored a list; in the second resolution of the
\* request the list was used, and no location provider was called.
C24_Witness ==
    /\ hist.starts = 2
    /\ \E t \in DOMAIN tasks :
           /\ tasks[t].pc = "done"
           /\ tasks[t].snip.present
           /\ tasks[t].gi = 1
           /\ ~tasks[t].calledLoc
           /\ getLocations(Getters(tasks[t].req.nodeType)[1], tasks[t].req.uri,
                           tasks[t].req.line, tasks[t].req.character, ver) = <<>>
           /\ LocCacheHas(locCache, tasks[t].req)

\* The getter of t has returned the cached definition at the location it
\* found.
CacheHit(t) ==
    /\ tasks[t].pc = "afterGetter"
    /\ tasks[t].snip.present
    /\ tasks[t].snip.hasContent
    /\ ~tasks[t].calledHover
    /\ ~tasks[t].readText

\* The relatedDefinitionKeys of the cache entry at path p holds key.
Linked(p, key) ==
    /\ p[1] \in DOMAIN defCache
    /\ p[2] \in DOMAIN defCache[p[1]]
    /\ defCache[p[1]][p[2]].rel # 0
    /\ key \in Range(relSets[defCache[p[1]][p[2]].rel])

\* What C25 requires of a call t that has hit the cache.
ShortCircuited(t) ==
    /\ t \notin active
    /\ DefCacheHas(defCache, tasks[t].snip.loc)
    /\ tasks[t].snip.content = DefCacheGet(defCache, tasks[t].snip.loc).content
    /\ \A p \in Range(tasks[t].parents) : Linked(p, EntryPath(tasks[t].snip.loc))

\* C25: when the location found has an entry in the definition cache, no
\* hover call and no read of the source are made for it, the content returned
\* is the cached one, and the key is then in the relatedDefinitionKeys of
\* every ancestor of the parent-key set.
C25_CacheHitShortCircuits ==
    [][\A t \in DOMAIN tasks' :
          (CacheHit(t)' /\ ~(t \in DOMAIN tasks /\ CacheHit(t))) => ShortCircuited(t)']_vars

\* The calls made, at any depth, while expanding the call t.
Descendants(t) ==
    {d \in DOMAIN tasks : Len(d) > Len(t) /\ SubSeq(d, 1, Len(t)) = t}

\* The keys of the relatedDefinitionKeys Set of a snippet (none without Set).
RelatedKeys(snip) == IF snip.rel = 0 THEN {} ELSE Range(relSets[snip.rel])

\* C26: when getSymbolContextSnippets has returned, the relatedDefinitionKeys
\* of every top-level snippet holds the key of every definition resolved
\* with content while the snippet was expanded, at any depth.
C26_LinkageComplete ==
    \A s \in DOMAIN retr :
        retr[s].status = "resolved" =>
            \A i \in WithSnippet(s) :
                \A d \in Descendants(<<s, i>>) :
                    (tasks[d].pc = "done" /\ tasks[d].snip.present) =>
                        EntryPath(tasks[d].snip.loc) \in RelatedKeys(tasks[<<s, i>>].snip)

\* The keys of the relatedDefinitionKeys of the cache entry under uri and k
\* (none if the entry has no Set).
EntryKeys(dc, rs, uri, k) ==
    IF dc[uri][k].rel = 0 THEN {} ELSE Range(rs[dc[uri][k].rel])

\* C27: as long as its document is not invalidated, the relatedDefinitionKeys
\* of a definition-cache entry loses no key: resolving the definition again
\* does not put an entry with an empty Set, or without one, in its place.
C27_RelatedKeysOnlyGrow ==
    [][\A uri \in DOMAIN defCache : \A k \in DOMAIN defCache[uri] :
          (uri \in DOMAIN defCache' /\ k \in DOMAIN defCache'[uri]) =>
              EntryKeys(defCache, relSets, uri, k)
                  \subseteq EntryKeys(defCache', relSets', uri, k)]_vars

\* C28: the relatedDefinitionKeys of a definition-cache entry, and of the
\* snippet of every call, in flight or returned, never holds the key of the
\* entry or snippet itself, also when a definition refers back to an ancestor.
C28_NoSelfReference ==
    /\ \A uri \in DOMAIN defCache : \A k \in DOMAIN defCache[uri] :
           <<uri, k>> \notin EntryKeys(defCache, relSets, uri, k)
    /\ \A t \in DOMAIN tasks :
           tasks[t].snip.present =>
               EntryPath(tasks[t].snip.loc) \notin RelatedKeys(tasks[t].snip)

\* The nested requests the call t has spawned.
Nested(t) == Children(tasks, t)

\* The names the specification's stop list holds, of those of the workspace.
StopList == {KwAny}

\* C29: a definition resolved with content spawns at most 5 nested requests,
\* none with the name of the symbol it was resolved for or a stop-listed
\* keyword; they run with the budget R - 1 and with the parent keys of the
\* caller and the snippet's own key; a definition in which no identifier
\* remains spawns none and its cache entry has no relatedDefinitionKeys.
C29_BoundedExpansion ==
    \A t \in DOMAIN tasks :
        /\ Cardinality(Nested(t)) <= 5
        /\ \A c \in Nested(t) :
               /\ tasks[c].req.symbolName # tasks[t].req.symbolName
               /\ tasks[c].req.symbolName \notin StopList
               /\ tasks[c].R = tasks[t].R - 1
               /\ tasks[c].parents = NewSet(<<EntryPath(tasks[t].snip.loc)>> \o tasks[t].parents)
        /\ (tasks[t].pc = "done" /\ tasks[t].snip.present /\ tasks[t].snip.loc = LZedB) =>
               /\ Nested(t) = {}
               /\ tasks[t].snip.rel = 0
               /\ DefCacheHas(defCache, LZedB)
               /\ DefCacheGet(defCache, LZedB).rel = 0

\* C29 witness: a definition naming seven identifiers has spawned five
\* requests, with the budget 1 and its own key as their parent key, and they
\* have returned.
C29_Witness ==
    \E t \in DOMAIN tasks :
        /\ tasks[t].req = ReqWid
        /\ tasks[t].R = 2
        /\ Cardinality(Nested(t)) = 5
        /\ \A c \in Nested(t) :
               /\ tasks[c].pc = "done"
               /\ tasks[c].parents = <<EntryPath(LWide)>>

\* The code the hover answer of t holds.
HoverCode(t) == Join(extractHoverContent(tasks[t].resp.hover), NL)

\* The texts the definition range at loc can have.
SourceTexts(loc) == {SourceText(loc, v) : v \in [Docs -> 0..MaxEdits]}

\* C30: a property_identifier or type_identifier request makes no hover call,
\* and the content it extracts is the source text of the definition range;
\* a request of another node type makes the hover call first and reads the
\* source only if the code of the hover is unhelpful, else the code of the
\* hover is its content.
C30_ExtractionPolicy ==
    \A t \in DOMAIN tasks :
        IF tasks[t].req.nodeType \in {"property_identifier", "type_identifier"}
        THEN /\ ~tasks[t].calledHover
             /\ (tasks[t].readText /\ tasks[t].snip.hasContent) =>
                    tasks[t].snip.content \in SourceTexts(tasks[t].snip.loc)
        ELSE /\ tasks[t].readText =>
                    /\ tasks[t].calledHover
                    /\ SpecifiedUnhelpful(tasks[t].req.symbolName, HoverCode(t))
             /\ (tasks[t].calledHover /\ ~tasks[t].readText /\ tasks[t].snip.hasContent) =>
                    tasks[t].snip.content = HoverCode(t)

\* C30 witness: a type identifier got the source text without a hover call,
\* while the identifier above it got the code of its hover without a read.
C30_Witness ==
    /\ \E t \in DOMAIN tasks :
           /\ tasks[t].req.nodeType = "type_identifier"
           /\ tasks[t].readText
           /\ tasks[t].snip.hasContent
           /\ tasks[t].pc = "done"
    /\ \E t \in DOMAIN tasks :
           /\ tasks[t].req.nodeType = "identifier"
           /\ tasks[t].calledHover
           /\ ~tasks[t].readText
           /\ tasks[t].snip.hasContent

\* The call t has got content: it is what t writes into the definition cache
\* (line 182) and what its snippet carries as its own content.
HasOwnContent(t) == tasks[t].snip.present /\ tasks[t].snip.hasContent

\* C31: for every node type, on the fresh-extraction path and on the
\* cache-hit path, the own content a call stores and returns for its symbol
\* is not unhelpful for that symbol: it is not empty, contains the name,
\* differs from it and is not a bare interface/class/enum/type declaration.
C31_NeverUnhelpful ==
    \A t \in DOMAIN tasks :
        HasOwnContent(t) =>
            ~SpecifiedUnhelpful(tasks[t].req.symbolName, tasks[t].snip.content)

\* The keys the reverse index holds under the document uri.
IndexedUnder(idx, uri) == IF uri \in DOMAIN idx THEN Range(idx[uri]) ELSE {}

\* C32: right after invalidateDocumentCache(D) the reverse index holds no
\* key under D, whether the evicted entries were requested from D or from
\* another document.
C32_IndexCleaned ==
    hist.lastInv.uri # "" => IndexedUnder(docToKeys, hist.lastInv.uri) = {}

\* C33: right after invalidateDocumentCache(D) the definition-location cache
\* holds no entry of a request that originates in D, also when the cached
\* locations of the request lie in another document.
C33_OwnBucketEvicted ==
    hist.lastInv.uri # "" =>
        \A p \in Paths(locCache) : p[1] # hist.lastInv.uri

\* The retrieve call before this one has not settled.
LastCallRunning == lastSlot # 0 /\ retr[lastSlot].status = "running"

\* A retrieve call for line of A starts in this step: a caller's, or the one
\* of the selection handler.
RetrieveStarts(line) ==
    \/ \E maxChars \in MaxCharsHints : Retrieve("A", line, maxChars)
    \/ pendingSelection.uri = "A" /\ pendingSelection.line = line /\ SelectionFire

\* C34: a retrieve call whose key (document, line, text of the line) differs
\* from the key of the call before it triggers that call's abort signal in
\* the step in which the new call starts, and a retrieve call with the same
\* key leaves it untriggered.
C34_AbortOnNewKey ==
    [][\A line \in RetrieverLines :
          (LastCallRunning /\ RetrieveStarts(line)) =>
              /\ retr'[lastSlot].status = "running"
              /\ retr'[lastSlot].aborted
                     <=> (<<"A", line, LineAt("A", line, ver)>> # lastRequestKey)
              /\ lastSlot' # lastSlot
              /\ retr'[lastSlot'].status = "running" => ~retr'[lastSlot'].aborted]_vars

\* C34 witness: two retrieve calls for the same line of A, whose text an
\* edit has altered in between: the second one runs, and the first one,
\* which has not settled, is aborted.
C34_Witness ==
    /\ hist.starts = 2
    /\ lastSlot = 2
    /\ tasks[<<1, 1>>].req = ReqFoo5
    /\ tasks[<<2, 1>>].req = ReqFoo5
    /\ retr[1].status = "running"
    /\ retr[1].aborted
    /\ retr[2].status = "running"
    /\ ~retr[2].aborted

\* C35: once dispose() has run, every retrieve call that is in flight has
\* its abort signal triggered, whatever calls came before.
C35_DisposeAbortsAll ==
    [][Dispose =>
          \A s \in DOMAIN retr : retr'[s].status = "running" => retr'[s].aborted]_vars

\* The top-level requests of the call in slot that were resolved, by position.
ResolvedPositions(slot) ==
    {i \in 1..retr[slot].n : tasks[<<slot, i>>].snip.present}

\* The position of the j-th resolved top-level request of the call in slot.
NthResolved(slot, j) ==
    CHOOSE i \in ResolvedPositions(slot) :
        Cardinality({k \in ResolvedPositions(slot) : k <= i}) = j

\* C36: the list a call returns has one snippet for every resolved top-level
\* request and nothing else, in the order of the requests; each snippet has
\* the symbol of its request and the first location of the list the
\* request's getter worked on, and the definitions reached by expansion are
\* no elements of the list.
C36_ResultShape ==
    \A slot \in DOMAIN retr :
        (retr[slot].status = "resolved" /\ retr[slot].R > 0) =>
            LET result == retr[slot].result
            IN /\ Len(result) <= retr[slot].n
               /\ Len(result) = Cardinality(ResolvedPositions(slot))
               /\ \A j \in 1..Len(result) :
                      LET task == tasks[<<slot, NthResolved(slot, j)>>]
                      IN /\ result[j].symbol = task.req.symbolName
                         /\ result[j].loc = task.locs[1]
                         /\ result[j].hasContent

\* C36 witness: of three requests the first and the third were resolved, the
\* third one's definition was expanded, and the call returned two snippets.
C36_Witness ==
    \E slot \in DOMAIN retr :
        /\ retr[slot].status = "resolved"
        /\ retr[slot].n = 3
        /\ Len(retr[slot].result) = 2
        /\ ResolvedPositions(slot) = {1, 3}
        /\ Children(tasks, <<slot, 3>>) # {}

\* C37: an entry of the definition cache or of the definition-location cache
\* disappears only in a step that is an invalidation of a document (the
\* caches stay below their capacity, so nothing is evicted); no call that
\* ends with an empty getter result or an unhelpful extraction removes an
\* entry another call has written.
C37_NoCrossBranchLoss ==
    [][/\ \A p \in Paths(defCache) :
              p \notin Paths(defCache') => hist'.lastInv.uri # ""
       /\ \A p \in Paths(locCache) :
              p \notin Paths(locCache') => hist'.lastInv.uri # ""]_vars

\* The engine as it is after construction, with the documents as they are.
ColdEngine ==
    [Pack EXCEPT !.defCache = EmptyMap, !.locCache = EmptyMap,
                 !.docToKeys = EmptyMap, !.relSets = <<>>, !.tasks = EmptyMap,
                 !.recency = [def |-> NoOrder, loc |-> NoOrder],
                 !.runq = <<>>, !.active = {}, !.queue = <<>>,
                 !.retr = [s \in 1..Callers |-> IdleCall],
                 !.hist.resolved = {}, !.hist.resolvedAt = {},
                 !.hist.needFresh = {}, !.hist.staleDefs = {},
                 !.hist.lastInv = NoInv]

\* The calls of S that wait for a read of a document.
Reading(S) == {t \in DOMAIN S.tasks : S.tasks[t].pc \in {"awaitText1", "awaitText2"}}

\* One step of the engine S on its own: the next microtask, else the answer
\* of a provider call in flight, else the answer of a read.
EngineStep(S) ==
    IF S.runq # <<>>
    THEN LET t == Head(S.runq)
             S1 == [S EXCEPT !.runq = Tail(@)]
             pc == S.tasks[t].pc
         IN IF pc = "start" THEN StartGetter(S1, t)
            ELSE IF pc = "afterGetter" THEN AfterGetter(S1, t)
            ELSE IF pc = "hoverAborted" THEN GotHover(S1, t, <<>>)
            ELSE ChildrenDone(S1, t)
    ELSE IF S.active # {}
    THEN LET t == CHOOSE x \in S.active : TRUE
             S1 == LimiterRelease(S, t)
         IN IF S.tasks[t].pc = "awaitLoc"
            THEN GotLocations(S1, t, S.tasks[t].resp.locs)
            ELSE GotHover(S1, t, S.tasks[t].resp.hover)
    ELSE LET t == CHOOSE x \in Reading(S) : TRUE
         IN GotText(S, t, getTextFromLocation(S.tasks[t].snip.loc, S.ver))

RECURSIVE RunToEnd(_)
RunToEnd(S) ==
    IF S.runq = <<>> /\ S.active = {} /\ Reading(S) = {}
    THEN S
    ELSE RunToEnd(EngineStep(S))

\* What a result list says: symbols, locations and assembled contents.
Outcome(result) ==
    [j \in 1..Len(result) |->
        [symbol |-> result[j].symbol, loc |-> result[j].loc,
         content |-> result[j].content]]

\* The outcome of getSymbolContextSnippets({requests, recursionLimit}) when
\* both caches are empty.
ColdOutcome(requests, recursionLimit) ==
    Outcome(RunToEnd(StartCallIn(ColdEngine, 1, requests, recursionLimit)).retr[1].result)

\* The request list of the call in slot.
RequestsOf(slot) == [i \in 1..retr[slot].n |-> tasks[<<slot, i>>].req]

\* C38: with unchanged documents, whatever was retrieved before, the list a
\* call returns for a request list is the list the same call returns from
\* empty caches, also when a cached definition is served to a request for
\* a symbol with another name.
C38_CacheTransparency ==
    \A slot \in DOMAIN retr :
        (retr[slot].status = "resolved" /\ retr[slot].R > 0) =>
            Outcome(retr[slot].result) = ColdOutcome(RequestsOf(slot), retr[slot].R)

\* C39: every key the reverse index lists under a document refers to an
\* entry that is in the definition-location cache and has a location in
\* that document.
C39_NoDanglingKeys ==
    \A target \in DOMAIN docToKeys :
        \A cacheKey \in Range(docToKeys[target]) :
            /\ cacheKey \in Paths(locCache)
            /\ TargetsDocument(locCache[cacheKey[1]][cacheKey[2]], target)

\* Where the name stands in the document: the line that holds it and its
\* offset in that line.
ActualLine(documentLines, name) ==
    (CHOOSE i \in 1..Len(documentLines) : Includes(documentLines[i], name)) - 1

ActualCharacter(documentLines, name) ==
    FirstIndexOf(documentLines[ActualLine(documentLines, name) + 1], name) - 1

\* C40: the position of every nested request made from the source text of a
\* definition range is the position of the identifier in the definition's
\* document, on the first line of the range and on the later ones, whatever
\* the character the range starts at.
C40_TranslationExact ==
    probe.done =>
        \A i \in 1..Len(probe.requests) :
            LET documentLines == DocumentLines(probe.L0, probe.C0)
                name == probe.requests[i].symbolName
            IN /\ probe.requests[i].line = ActualLine(documentLines, name)
               /\ probe.requests[i].character = ActualCharacter(documentLines, name)

====
